---- MODULE Spec2Model ----
(***************************************************************************)
(* The real-time driver of the NMEA simulator (nmea_injector.simulator,    *)
(* class Simulator): the worker thread's loop, the controlling thread's    *)
(* serve()/kill() and log control, and client threads calling              *)
(* get_new_sentences(), set_targeting(), clear_targeting(),                *)
(* output_latest() and generate(), with the two locks (self.lock and       *)
(* self._stream_lock) and the run flag they share.                         *)
(***************************************************************************)
EXTENDS Integers, Sequences, FiniteSets, TLC

(* ------------------------------- bounds -------------------------------- *)
\* calls of public operations made in one run, by all threads together
MaxCalls == 2
\* loop iterations (ticks) all workers begin together
MaxTicks == 2
\* client threads calling the public operations concurrently
NumClients == 2
\* sentences of one batch (the enabled sentences of the receiver)
BatchLen == 2
\* largest duration (in seconds) a client passes to generate()
MaxDuration == 1
\* by how many seconds at most an iteration of the worker overruns the interval
MaxLag == 1
\* direct calls of a strategy's operations in one run
MaxSteps == 4
\* laps of a looping route a journey is followed for
MaxLaps == 2
\* iterations of its loop after which a get_output that never ends is left alone
MaxBatches == MaxDuration + 1

(* ------------------------------ identities ----------------------------- *)
NoThread == 0
\* every serve() creates one worker thread
Workers == 1..MaxCalls
Clients == (MaxCalls + 1)..(MaxCalls + NumClients)
Threads == Workers \cup Clients
\* value of a local variable that was never assigned
Unbound == <<"unbound">>

VARIABLES
    \* Simulator fields
    run,                 \* self.__run (threading.Event)
    lock,                \* self.lock: the thread holding it, or NoThread
    stream_lock,         \* self._stream_lock: the thread holding it, or NoThread
    worker,              \* self.__worker: a worker's id, or NoThread for None
    sentence_stream,     \* self._sentence_stream
    log_file_handle,     \* self._log_file_handle is an open file
    auto_log_file,       \* self._auto_log_file is a file name
    targeting_strategy,  \* self._targeting_strategy
    \* the primary receiver (self.gps)
    date_time,           \* gnss.date_time, in units of self.step
    has_rtc,             \* gnss.has_rtc
    num_sats,            \* gnss.num_sats
    \* worker threads
    wpc,                 \* position of each worker in __action
    sentences,           \* __action's local `sentences`
    wi,                  \* index of the running for loop over sentences
    wts,                 \* _add_to_stream's local `timestamp`
    \* controlling thread
    cpc,                 \* position of the controlling thread
    cop,                 \* the operation it runs, or ran last
    serves,              \* worker threads created so far
    calls,               \* public operations called so far
    \* client threads
    kpc,                 \* position of each client
    ki,                  \* a client's local index: of its loop over sentences, or
                         \* the argument of its remove_waypoint()
    kstart,              \* get_output's local `start`
    know,                \* get_output's local `now`
    kdur,                \* get_output's argument `duration`
    \* histories (observations of the run, read by no action)
    ticks,               \* loop iterations begun by workers
    appended,            \* every pair appended to the stream, in order
    delivered,           \* the results of all drains, concatenated in lock order
    sink,                \* <<timestamp of the batch, sentence>> the workers wrote
    last_event,          \* what each worker did last: generated a batch, or called __step
    log_failed,          \* a log write failed while the worker's current batch was appended
    flag_cleared,        \* when kill() cleared the run flag under a live worker: before the
                         \* worker's own run.set() ("before_set"), or after it ("in_loop")
    \* Simulator settings
    static,              \* self.static
    heading_variation,   \* self.heading_variation
    interval,            \* self.interval, in seconds
    step,                \* self.step, in seconds
    \* the primary receiver (self.gps), continued
    has_fix,             \* gnss.has_fix
    latlon,              \* gnss.lat, gnss.lon: a position
    heading,             \* gnss.heading, in degrees
    kph,                 \* gnss.kph
    \* the secondary receiver
    glonass,             \* self.glonass: << >> for None, or <<receiver>>
    \* more histories
    sim_time,            \* the simulated seconds so far: the durations of all calls of
                         \* __step and of all direct calls of an active strategy
    drained,             \* per drain: how many pairs it returned, and how many were
                         \* appended up to then
    kbatches,            \* iterations each client's get_output loop began
    last_call,           \* the last direct call of get_next_position: << >>, or
                         \* <<its inputs and the strategy before it>>
    nsteps,              \* direct calls of the strategy's operations so far
    targeting_log        \* per set_targeting() and clear_targeting() that returned:
                         \* which it was, the receivers and the simulated time then

vars == <<run, lock, stream_lock, worker, sentence_stream, log_file_handle,
          auto_log_file, targeting_strategy, date_time, has_rtc, num_sats,
          wpc, sentences, wi, wts, cpc, cop, serves, calls, kpc, ki, kstart, know,
          kdur, ticks, appended, delivered, sink, last_event, log_failed,
          flag_cleared, static, heading_variation, interval, step, has_fix,
          latlon, heading, kph, glonass, sim_time, drained, kbatches,
          last_call, nsteps, targeting_log>>

simVars == <<run, lock, stream_lock, worker, sentence_stream, log_file_handle,
             auto_log_file, targeting_strategy>>
gnssVars == <<date_time, has_rtc, num_sats, has_fix, latlon, heading, kph, glonass>>
cfgVars == <<static, heading_variation, interval, step>>
obsVars == <<sim_time, drained, kbatches, last_call, nsteps, targeting_log>>
workerVars == <<wpc, sentences, wi, wts>>
ctlVars == <<cpc, cop, serves>>
\* calls is written by the controlling thread and by the clients
clientVars == <<kpc, ki, kstart, know, kdur>>
histVars == <<ticks, appended, delivered, sink, last_event, log_failed, flag_cleared>>

\* datetime.now(): the wall clock, read once per batch; the batches of different
\* ticks are read at different times, so the reading is the tick's number.
Now == ticks

(* ------------------------- positions (targeting.py) -------------------- *)
\* Lengths are whole metres (a length the code holds in km is held as its
\* number of metres, so `* 1000` and `/ 1000.0` between km and m convert
\* nothing here), angles whole degrees, times whole seconds. A position is
\* <<"m", n>>: the point n metres north of a reference point on its meridian,
\* or <<"p", pos, bearing, distance>>: the point reached from pos by going
\* distance on a bearing that leaves the meridian. Distances are far below
\* the Earth's radius and no position is near a pole.
Meridian(n) == <<"m", n>>
OnMeridian(pos) == pos[1] = "m"

\* the haversine distance of two points of one meridian: the length of the arc
calculate_distance_km(pos1, pos2) ==
    CASE OnMeridian(pos1) /\ OnMeridian(pos2) ->
            IF pos2[2] >= pos1[2] THEN pos2[2] - pos1[2] ELSE pos1[2] - pos2[2]

\* the initial bearing between two points of one meridian: north (atan2(0, x)
\* with x >= 0; x = 0 for equal points) or south (x < 0)
calculate_bearing(pos1, pos2) ==
    CASE OnMeridian(pos1) /\ OnMeridian(pos2) ->
            IF pos2[2] >= pos1[2] THEN 0 ELSE 180

\* the point at distance_km from pos on the bearing
move_position(pos, bearing, distance_km) ==
    IF distance_km = 0 THEN pos
    ELSE IF OnMeridian(pos) /\ bearing = 0 THEN Meridian(pos[2] + distance_km)
    ELSE IF OnMeridian(pos) /\ bearing = 180 THEN Meridian(pos[2] - distance_km)
    ELSE <<"p", pos, bearing, distance_km>>

\* (speed_kph / 3600.0) * duration_seconds, a length in km
DistanceThisStep(speed_kph, duration_seconds) ==
    (speed_kph * duration_seconds * 1000) \div 3600

(* ------------------------ strategies (targeting.py) -------------------- *)
\* self._targeting_strategy = None
NoStrategy == [type |-> "none"]

\* StaticTargeting()
StaticTargeting ==
    [type |-> "static", is_active |-> TRUE, total_distance_traveled |-> 0]

\* LinearTargeting(...): None for _initial_distance_km is << >>
LinearTargeting(target, speed_kph, stop_at_target, arrival_threshold_meters) ==
    [type |-> "linear", is_active |-> TRUE, total_distance_traveled |-> 0,
     target |-> target, speed_kph |-> speed_kph,
     stop_at_target |-> stop_at_target,
     arrival_threshold_meters |-> arrival_threshold_meters,
     initial_distance_km |-> << >>, arrived |-> FALSE]

\* CircularTargeting(...)
CircularTargeting(center, radius_meters, angular_velocity, clockwise, start_angle) ==
    [type |-> "circular", is_active |-> TRUE, total_distance_traveled |-> 0,
     center |-> center, radius_meters |-> radius_meters,
     angular_velocity |-> angular_velocity, clockwise |-> clockwise,
     start_angle |-> start_angle, current_angle |-> start_angle,
     total_angle_traveled |-> 0, laps_completed |-> 0]

\* WaypointTargeting(waypoints, speed_kph, loop, arrival_threshold_meters,
\* mode = 'manual'): the route has at least 2 waypoints
WaypointTargeting(waypoints, speed_kph, loop, arrival_threshold_meters) ==
    [type |-> "waypoint", is_active |-> TRUE, total_distance_traveled |-> 0,
     waypoints |-> waypoints, loop |-> loop,
     arrival_threshold_meters |-> arrival_threshold_meters,
     mode |-> "manual", speed_kph |-> speed_kph,
     current_speed_kph |-> speed_kph, current_waypoint_index |-> 0,
     laps_completed |-> 0, total_route_distance_km |-> << >>,
     completed |-> FALSE]

\* VEHICLE_PROFILES, lines 15-34
VEHICLE_PROFILES ==
    ("F1" :> [top_speed_kph |-> 300, acceleration_kph_s |-> 60,
              braking_kph_s |-> 80, min_corner_speed_kph |-> 120])
    @@ ("Go-Kart" :> [top_speed_kph |-> 80, acceleration_kph_s |-> 25,
                      braking_kph_s |-> 35, min_corner_speed_kph |-> 40])
    @@ ("Bicycle" :> [top_speed_kph |-> 35, acceleration_kph_s |-> 6,
                      braking_kph_s |-> 12, min_corner_speed_kph |-> 15])

\* WaypointTargeting(waypoints, loop=..., arrival_threshold_meters=...,
\* mode='dynamic', speed_profile=...), lines 541-551 and 557-561: the route has
\* at least 2 waypoints and the profile is one of VEHICLE_PROFILES; the
\* vehicle starts from rest
DynamicWaypointTargeting(waypoints, loop, arrival_threshold_meters, speed_profile) ==
    LET profile == VEHICLE_PROFILES[speed_profile]
    IN  [type |-> "waypoint", is_active |-> TRUE, total_distance_traveled |-> 0,
         waypoints |-> waypoints, loop |-> loop,
         arrival_threshold_meters |-> arrival_threshold_meters,
         mode |-> "dynamic", speed_profile |-> speed_profile,
         top_speed_kph |-> profile.top_speed_kph,
         acceleration_kph_s |-> profile.acceleration_kph_s,
         braking_kph_s |-> profile.braking_kph_s,
         min_corner_speed_kph |-> profile.min_corner_speed_kph,
         current_speed_kph |-> 0, current_waypoint_index |-> 0,
         laps_completed |-> 0, total_route_distance_km |-> << >>,
         completed |-> FALSE]

\* what a constructor that raises leaves its caller with
ValueError == [type |-> "ValueError"]

\* A constructor that accepts a route of one waypoint.
WaypointTargetingFromOne(waypoints, speed_kph, loop, arrival_threshold_meters, mode, speed_profile) ==
    IF Len(waypoints) < 1 THEN ValueError
    ELSE IF mode = "dynamic"
    THEN IF speed_profile \notin DOMAIN VEHICLE_PROFILES THEN ValueError
         ELSE DynamicWaypointTargeting(waypoints, loop, arrival_threshold_meters,
                                       speed_profile)
    ELSE WaypointTargeting(waypoints, speed_kph, loop, arrival_threshold_meters)

\* WaypointTargeting.__init__, lines 531-561, with its two checks
NewWaypointTargeting(waypoints, speed_kph, loop, arrival_threshold_meters, mode, speed_profile) ==
    IF Len(waypoints) < 2 THEN ValueError
    ELSE IF mode = "dynamic"
    THEN IF speed_profile \notin DOMAIN VEHICLE_PROFILES THEN ValueError
         ELSE DynamicWaypointTargeting(waypoints, loop, arrival_threshold_meters,
                                       speed_profile)
    ELSE WaypointTargeting(waypoints, speed_kph, loop, arrival_threshold_meters)

\* what get_next_position returns, with the strategy as the call leaves it
Returned(s, pos, hdg, speed) ==
    [strategy |-> s, latlon |-> pos, heading |-> hdg, kph |-> speed]

\* TargetingStrategy._add_distance
AddDistance(s, distance_km) ==
    [s EXCEPT !.total_distance_traveled = @ + distance_km]

\* An arrival test that leaves out the threshold itself.
HasArrivedInside(distance_m, arrival_threshold_meters) ==
    distance_m < arrival_threshold_meters

\* lines 319 and 646: the arrival test of Linear and Waypoint targeting
HasArrived(distance_m, arrival_threshold_meters) ==
    distance_m <= arrival_threshold_meters

\* A linear move that is never shortened to the distance of the target.
LinearMoveUnclamped(s, current, current_heading, duration_seconds) ==
    LET distance_to_target_km == calculate_distance_km(current, s.target)
        arrives == HasArrived(distance_to_target_km, s.arrival_threshold_meters)
        s2 == [s EXCEPT !.initial_distance_km =
                          IF @ = << >> THEN <<distance_to_target_km>> ELSE @,
                        !.arrived = @ \/ arrives]
        target_bearing == calculate_bearing(current, s.target)
        full == DistanceThisStep(s.speed_kph, duration_seconds)
    IN  IF arrives /\ s.stop_at_target
        THEN Returned(s2, current, current_heading, 0)
        ELSE Returned(AddDistance(s2, full),
                      move_position(current, target_bearing, full),
                      target_bearing, s.speed_kph)

\* LinearTargeting.get_next_position, lines 308-344: the strategy is active
LinearMove(s, current, current_heading, duration_seconds) ==
    LET distance_to_target_km == calculate_distance_km(current, s.target)
        s1 == [s EXCEPT !.initial_distance_km =
                          IF @ = << >> THEN <<distance_to_target_km>> ELSE @]
        arrives == HasArrived(distance_to_target_km, s.arrival_threshold_meters)
        s2 == [s1 EXCEPT !.arrived = @ \/ arrives]
        target_bearing == calculate_bearing(current, s.target)
        full == DistanceThisStep(s.speed_kph, duration_seconds)
        distance_this_step_km ==
            IF s.stop_at_target /\ full > distance_to_target_km
            THEN distance_to_target_km ELSE full
    IN  IF arrives /\ s.stop_at_target
        THEN Returned(s2, current, current_heading, 0)
        ELSE Returned(AddDistance(s2, distance_this_step_km),
                      move_position(current, target_bearing, distance_this_step_km),
                      target_bearing, s.speed_kph)

\* LinearTargeting.is_complete
LinearIsComplete(s) == s.arrived /\ s.stop_at_target

\* LinearTargeting.reset, lines 350-354
LinearReset(s) ==
    [s EXCEPT !.initial_distance_km = << >>, !.arrived = FALSE,
              !.total_distance_traveled = 0]

\* An angle that is added to without being reduced modulo 360.
NextAngleUnreduced(angle, angle_delta) == angle + angle_delta

\* line 437: (self._current_angle + angle_delta) % 360; Python's % gives a
\* result in [0, 360) for a negative left operand too, as % does here
NextAngle(angle, angle_delta) == (angle + angle_delta) % 360

\* math.radians(degrees) * length, rounded down (pi as 355/113)
ArcLength(degrees, length) == (degrees * length * 355) \div (180 * 113)

\* CircularTargeting.get_next_position, lines 432-466: the strategy is active
CircularMove(s, duration_seconds) ==
    LET forward == s.angular_velocity * duration_seconds
        angle_delta == IF s.clockwise THEN forward ELSE -forward
        turned == IF angle_delta >= 0 THEN angle_delta ELSE -angle_delta
        current_angle == NextAngle(s.current_angle, angle_delta)
        total == s.total_angle_traveled + turned
        laps == IF total >= 360 THEN total \div 360 ELSE s.laps_completed
        hdg == IF s.clockwise THEN (current_angle + 90) % 360
                              ELSE (current_angle - 90) % 360
        speed_kph == (ArcLength(s.angular_velocity, s.radius_meters) * 36) \div 10
        s1 == [s EXCEPT !.current_angle = current_angle,
                        !.total_angle_traveled = total,
                        !.laps_completed = laps]
    IN  Returned(AddDistance(s1, ArcLength(turned, s.radius_meters)),
                 move_position(s.center, current_angle, s.radius_meters),
                 hdg, speed_kph)

\* Arriving at the last waypoint of a looping route without counting the lap.
WaypointArriveNoLap(s) ==
    IF s.current_waypoint_index + 1 >= Len(s.waypoints)
    THEN IF s.loop
         THEN [s EXCEPT !.current_waypoint_index = 0]
         ELSE [s EXCEPT !.current_waypoint_index = @ + 1, !.completed = TRUE]
    ELSE [s EXCEPT !.current_waypoint_index = @ + 1]

\* Arriving at the last waypoint of an open route and beginning again.
WaypointArriveAlwaysWraps(s) ==
    IF s.current_waypoint_index + 1 >= Len(s.waypoints)
    THEN IF s.loop
         THEN [s EXCEPT !.current_waypoint_index = 0, !.laps_completed = @ + 1]
         ELSE [s EXCEPT !.current_waypoint_index = 0]
    ELSE [s EXCEPT !.current_waypoint_index = @ + 1]

\* lines 648-660: the current waypoint is reached: the next one becomes the
\* target; past the last one a looping route begins its next lap, an open one
\* is completed
WaypointArrive(s) ==
    IF s.current_waypoint_index + 1 >= Len(s.waypoints)
    THEN IF s.loop
         THEN [s EXCEPT !.current_waypoint_index = 0, !.laps_completed = @ + 1]
         ELSE [s EXCEPT !.current_waypoint_index = @ + 1, !.completed = TRUE]
    ELSE [s EXCEPT !.current_waypoint_index = @ + 1]

\* _calculate_turn_angle, lines 590-618
calculate_turn_angle(p1, p2, p3) ==
    LET bearing1 == calculate_bearing(p1, p2)
        bearing2 == calculate_bearing(p2, p3)
        turn_angle == IF bearing2 >= bearing1 THEN bearing2 - bearing1
                                              ELSE bearing1 - bearing2
    IN  IF turn_angle > 180 THEN 360 - turn_angle ELSE turn_angle

\* lines 700-708: the apex speed of a corner, from its turn angle
ApexSpeed(s, turn_angle) ==
    IF turn_angle <= 15 THEN s.top_speed_kph
    ELSE IF turn_angle >= 45 THEN s.min_corner_speed_kph
    ELSE s.top_speed_kph
           - ((turn_angle - 15) * (s.top_speed_kph - s.min_corner_speed_kph)) \div 30

\* line 675
LookAheadWaypoints == 20

\* lines 683-685: the waypoints p1, p2, p3 of iteration i of the look-ahead
\* loop. (waypoints[i] of the code is waypoints[i + 1] here.)
LookAheadIndex(s, i, k) == (s.current_waypoint_index + i + k) % Len(s.waypoints)
LookAheadPoint(s, i, k) == s.waypoints[LookAheadIndex(s, i, k) + 1]

\* line 688: the test that ends the look-ahead of a route that is not a loop
LookAheadEnds(s, i) ==
    /\ ~s.loop
    /\ \/ LookAheadIndex(s, i, 1) >= Len(s.waypoints)
       \/ LookAheadIndex(s, i, 2) >= Len(s.waypoints)

\* the number of corners the loop of lines 681-719 analyses
RECURSIVE LookAheadLength(_, _)
LookAheadLength(s, i) ==
    IF i >= LookAheadWaypoints \/ LookAheadEnds(s, i) THEN i
    ELSE LookAheadLength(s, i + 1)

\* lines 710-713: cumulative_distance_m after iteration i
RECURSIVE CumulativeDistance(_, _)
CumulativeDistance(s, i) ==
    calculate_distance_km(LookAheadPoint(s, i, 0), LookAheadPoint(s, i, 1))
    + (IF i = 0 THEN 0 ELSE CumulativeDistance(s, i - 1))

\* lines 674-719: path_analysis; entry n is the corner of iteration n - 1
PathAnalysis(s) ==
    [n \in 1..LookAheadLength(s, 0) |->
        [distance_to_corner |-> CumulativeDistance(s, n - 1),
         apex_speed_kph |->
            ApexSpeed(s, calculate_turn_angle(LookAheadPoint(s, n - 1, 0),
                                              LookAheadPoint(s, n - 1, 1),
                                              LookAheadPoint(s, n - 1, 2)))]]

\* A braking distance from the difference of the speeds, not of their squares.
BrakingDistanceOfDifference(s, initial_speed_kph, final_speed_kph) ==
    IF final_speed_kph >= initial_speed_kph THEN [num |-> 0, den |-> 1]
    ELSE [num |-> 10 * (initial_speed_kph - final_speed_kph)
                     * (initial_speed_kph - final_speed_kph),
          den |-> 72 * s.braking_kph_s]

\* _calculate_required_braking_distance, lines 563-588, in metres as the
\* fraction num / den: (v_i^2 - v_f^2) / 3.6^2 / (2 * braking / 3.6)
\* = 10 * (v_i^2 - v_f^2) / (72 * braking)
calculate_required_braking_distance(s, initial_speed_kph, final_speed_kph) ==
    IF final_speed_kph >= initial_speed_kph THEN [num |-> 0, den |-> 1]
    ELSE [num |-> 10 * (initial_speed_kph * initial_speed_kph
                        - final_speed_kph * final_speed_kph),
          den |-> 72 * s.braking_kph_s]

\* line 731: required_distance >= corner_info['distance_to_corner']
IsCritical(s, corner_info) ==
    LET required_distance ==
            calculate_required_braking_distance(s, s.current_speed_kph,
                                                corner_info.apex_speed_kph)
    IN  required_distance.num >= corner_info.distance_to_corner * required_distance.den

\* lines 725-740: the position in path_analysis of the first critical corner
\* from position n on, 0 when there is none
RECURSIVE CriticalCorner(_, _, _)
CriticalCorner(s, path_analysis, n) ==
    IF n > Len(path_analysis) THEN 0
    ELSE IF IsCritical(s, path_analysis[n]) THEN n
    ELSE CriticalCorner(s, path_analysis, n + 1)

\* lines 722, 732-733: top speed by default, else the apex speed of the
\* critical corner
TargetSpeedAt(s, path_analysis, critical) ==
    IF critical = 0 THEN s.top_speed_kph
    ELSE path_analysis[critical].apex_speed_kph

\* lines 725-740: the critical corner is searched in path_analysis from its
\* first entry
TargetSpeedIn(s, path_analysis) ==
    TargetSpeedAt(s, path_analysis, CriticalCorner(s, path_analysis, 1))

\* lines 674-740: immediate_target_speed_kph
ImmediateTargetSpeed(s) == TargetSpeedIn(s, PathAnalysis(s))

Min(a, b) == IF a <= b THEN a ELSE b
Max(a, b) == IF a >= b THEN a ELSE b

\* A speed after acceleration or braking that is not forced into the limits.
SpeedUnlimited(s, speed_kph) == speed_kph

\* lines 790-792: the speed forced into [min_corner_speed, top_speed]
SpeedLimited(s, speed_kph) ==
    Max(s.min_corner_speed_kph, Min(s.top_speed_kph, speed_kph))

\* lines 745-788: the speed after accelerating or braking towards the target
\* speed for duration_seconds
SpeedAdjusted(s, speed_difference, duration_seconds) ==
    IF speed_difference > 0
    THEN s.current_speed_kph
            + Min(s.acceleration_kph_s * duration_seconds, speed_difference)
    ELSE IF speed_difference < 0
    THEN s.current_speed_kph
            - Min(s.braking_kph_s * duration_seconds, -speed_difference)
    ELSE s.current_speed_kph

\* lines 742-795: current_speed_kph after a tick of Dynamic mode
DynamicSpeed(s, duration_seconds) ==
    SpeedLimited(s, SpeedAdjusted(s, ImmediateTargetSpeed(s) - s.current_speed_kph,
                                  duration_seconds))

\* lines 742-798: the strategy with the speed of this tick: in Dynamic mode
\* current_speed_kph is adjusted, in Manual mode nothing changes
WaypointSpeed(s, duration_seconds) ==
    IF s.mode = "dynamic"
    THEN [s EXCEPT !.current_speed_kph = DynamicSpeed(s, duration_seconds)]
    ELSE s

\* lines 794-798: effective_speed_kph
EffectiveSpeed(s) ==
    IF s.mode = "dynamic" THEN s.current_speed_kph ELSE s.speed_kph

\* lines 805-815: the move of distance_this_step_km along target_bearing
WaypointAdvance(s, current, target_bearing, distance_this_step_km) ==
    Returned(AddDistance(s, distance_this_step_km),
             move_position(current, target_bearing, distance_this_step_km),
             target_bearing, EffectiveSpeed(s))

\* A move towards the waypoint that is never shortened to its distance.
WaypointTowardsUnclamped(s, current, target, duration_seconds) ==
    WaypointAdvance(s, current, calculate_bearing(current, target),
                    DistanceThisStep(EffectiveSpeed(s), duration_seconds))

\* lines 800-815: the distance of this tick, at most the distance to the
\* target, s being the strategy with the speed of this tick
WaypointTowards(s, current, target, duration_seconds) ==
    WaypointAdvance(s, current, calculate_bearing(current, target),
                    Min(DistanceThisStep(EffectiveSpeed(s), duration_seconds),
                        calculate_distance_km(current, target)))

\* lines 662-815: after the arrival check: a route just completed returns the
\* inputs with speed 0, else the receiver moves towards the target waypoint
WaypointTravel(s, current, current_heading, duration_seconds) ==
    IF s.completed
    THEN Returned(s, current, current_heading, 0)
    ELSE WaypointTowards(WaypointSpeed(s, duration_seconds), current,
                         s.waypoints[s.current_waypoint_index + 1], duration_seconds)

\* lines 637-665: the arrival check against the current waypoint
WaypointCheckArrival(s, current, current_heading, duration_seconds) ==
    WaypointTravel(
        IF HasArrived(calculate_distance_km(current,
                                            s.waypoints[s.current_waypoint_index + 1]),
                      s.arrival_threshold_meters)
        THEN WaypointArrive(s) ELSE s,
        current, current_heading, duration_seconds)

\* lines 629-635: an index past the last waypoint of a looping route wraps to
\* the first and counts a lap
WaypointWrapped(s) ==
    IF s.current_waypoint_index >= Len(s.waypoints)
    THEN [s EXCEPT !.current_waypoint_index = 0, !.laps_completed = @ + 1]
    ELSE s

\* WaypointTargeting.get_next_position, lines 628-815: the strategy is active
\* and not completed. (waypoints[i] of the code is waypoints[i + 1] here.)
WaypointMove(s, current, current_heading, duration_seconds) ==
    IF s.current_waypoint_index >= Len(s.waypoints) /\ ~s.loop
    THEN Returned([s EXCEPT !.completed = TRUE], current, current_heading, 0)
    ELSE WaypointCheckArrival(WaypointWrapped(s), current, current_heading,
                              duration_seconds)

\* A strategy that moves whether it is active or not.
GetNextPositionAlways(s, current, current_heading, duration_seconds) ==
    CASE s.type = "static" -> Returned(s, current, current_heading, 0)
      [] s.type = "linear" -> LinearMove(s, current, current_heading, duration_seconds)
      [] s.type = "circular" -> CircularMove(s, duration_seconds)
      [] s.type = "waypoint" ->
            WaypointMove(s, current, current_heading, duration_seconds)

\* get_next_position of the four strategies (lines 146-150, 300-344, 424-466,
\* 620-815): an inactive strategy, and a completed waypoint route, return the
\* inputs with speed 0
GetNextPosition(s, current, current_heading, duration_seconds) ==
    IF s.type = "static" THEN Returned(s, current, current_heading, 0)
    ELSE IF ~s.is_active THEN Returned(s, current, current_heading, 0)
    ELSE IF s.type = "waypoint" /\ s.completed
    THEN Returned(s, current, current_heading, 0)
    ELSE CASE s.type = "linear" ->
                LinearMove(s, current, current_heading, duration_seconds)
           [] s.type = "circular" -> CircularMove(s, duration_seconds)
           [] s.type = "waypoint" ->
                WaypointMove(s, current, current_heading, duration_seconds)

\* is_complete of the four strategies
IsComplete(s) ==
    CASE s.type = "static" -> FALSE
      [] s.type = "linear" -> LinearIsComplete(s)
      [] s.type = "circular" -> FALSE
      [] s.type = "waypoint" -> s.completed

\* WaypointTargeting.reset, lines 821-831
WaypointReset(s) ==
    [s EXCEPT !.current_waypoint_index = 0, !.laps_completed = 0,
              !.completed = FALSE, !.total_distance_traveled = 0,
              !.total_route_distance_km = << >>,
              !.current_speed_kph = IF s.mode = "dynamic" THEN 0 ELSE @]

\* list.insert(index, e) for index >= 0: e comes before the element at index,
\* or last when index is the length or more
Insert(list, index, e) ==
    LET at == Min(index, Len(list))
    IN  SubSeq(list, 1, at) \o <<e>> \o SubSeq(list, at + 1, Len(list))

\* list.pop(index) for 0 <= index < len(list)
Pop(list, index) ==
    SubSeq(list, 1, index) \o SubSeq(list, index + 2, Len(list))

\* WaypointTargeting.add_waypoint, lines 888-894; << >> is index None
add_waypoint(s, pos, index) ==
    [s EXCEPT !.waypoints = IF index = << >> THEN Append(@, pos)
                            ELSE Insert(@, index[1], pos)]

\* A removal that goes down to one waypoint.
remove_waypoint_to_one(s, index) ==
    IF 0 <= index /\ index < Len(s.waypoints) /\ Len(s.waypoints) > 1
    THEN [s EXCEPT !.waypoints = Pop(@, index),
                   !.current_waypoint_index =
                        IF @ >= index THEN Max(0, @ - 1) ELSE @]
    ELSE s

\* A removal that leaves current_index as it is.
remove_waypoint_keeps_index(s, index) ==
    IF 0 <= index /\ index < Len(s.waypoints) /\ Len(s.waypoints) > 2
    THEN [s EXCEPT !.waypoints = Pop(@, index)]
    ELSE s

\* WaypointTargeting.remove_waypoint, lines 896-902
remove_waypoint(s, index) ==
    IF 0 <= index /\ index < Len(s.waypoints) /\ Len(s.waypoints) > 2
    THEN [s EXCEPT !.waypoints = Pop(@, index),
                   !.current_waypoint_index =
                        IF @ >= index THEN Max(0, @ - 1) ELSE @]
    ELSE s

\* lines 909-913: the sum of the legs between successive waypoints
RECURSIVE LegsUpTo(_, _)
LegsUpTo(waypoints, n) ==
    IF n < 2 THEN 0
    ELSE LegsUpTo(waypoints, n - 1)
         + calculate_distance_km(waypoints[n - 1], waypoints[n])

\* lines 909-919: the route distance computed from the waypoints
RouteDistance(s) ==
    LegsUpTo(s.waypoints, Len(s.waypoints))
    + (IF s.loop /\ Len(s.waypoints) > 2
       THEN calculate_distance_km(s.waypoints[Len(s.waypoints)], s.waypoints[1])
       ELSE 0)

\* WaypointTargeting.calculate_total_route_distance, lines 904-922: the value
\* returned, and the strategy with the value memoised
calculate_total_route_distance(s) ==
    IF s.total_route_distance_km # << >>
    THEN [strategy |-> s, result |-> s.total_route_distance_km[1]]
    ELSE [strategy |-> [s EXCEPT !.total_route_distance_km = <<RouteDistance(s)>>],
          result |-> RouteDistance(s)]

(* ------------------------------ receivers ------------------------------ *)
\* The sentence batch of a receiver for the instant t: one sentence per enabled
\* identifier, in a fixed order; producing it does not change the receiver.
GetOutput(t) == [i \in 1..BatchLen |-> <<t, i>>]

\* a receiver, as __step reads and writes it
Receiver(t, rtc, sats, fix, pos, hdg, speed) ==
    [date_time |-> t, has_rtc |-> rtc, num_sats |-> sats, has_fix |-> fix,
     latlon |-> pos, heading |-> hdg, kph |-> speed]

\* self.gps
Gps == Receiver(date_time, has_rtc, num_sats, has_fix, latlon, heading, kph)

\* lines 179-181, 249-251: the batches of all receivers, the primary's first
Output ==
    GetOutput(date_time)
        \o (IF glonass = << >> THEN << >> ELSE GetOutput(glonass[1].date_time))

\* A receiver clock that runs on satellites only.
AdvanceDateTimeNeedsSats(gnss, duration) ==
    IF gnss.num_sats > 0 THEN gnss.date_time + duration ELSE gnss.date_time

\* lines 124-126: __step's advance of a receiver's clock: only with satellites
\* or an RTC
AdvanceDateTime(gnss, duration) ==
    IF gnss.num_sats > 0 \/ gnss.has_rtc
    THEN gnss.date_time + duration ELSE gnss.date_time

\* (random() - 0.5) * self.heading_variation: a value in
\* [-heading_variation / 2, heading_variation / 2)
RandomHeadings ==
    {r \in (-heading_variation)..heading_variation :
        -heading_variation <= 2 * r /\ 2 * r < heading_variation}

\* lines 153-155, 159-161: the random walk of the heading
VaryHeading(hdg, rand_heading) ==
    IF heading_variation # 0 THEN (hdg + rand_heading) % 360 ELSE hdg

\* gnss.move(duration): the receiver goes straight on at its speed and heading
Move(gnss, duration) ==
    [gnss EXCEPT !.latlon =
        move_position(gnss.latlon, gnss.heading, DistanceThisStep(gnss.kph, duration))]

\* lines 146-155: the receiver takes the position, heading and speed that
\* get_next_position returned, the heading with its random variation
Targeted(gnss, next, rand_heading) ==
    [gnss |-> [gnss EXCEPT !.latlon = next.latlon,
                           !.heading = VaryHeading(next.heading, rand_heading),
                           !.kph = next.kph],
     strategy |-> next.strategy]

\* lines 123-162: the body of __step's loop for one receiver: the receiver
\* and the strategy as it leaves them
StepReceiver(gnss, s, duration, rand_heading) ==
    LET g1 == [gnss EXCEPT !.date_time = AdvanceDateTime(gnss, duration)]
    IN  IF gnss.has_fix /\ s # NoStrategy
        THEN IF s.is_active
             THEN Targeted(g1, GetNextPosition(s, gnss.latlon, gnss.heading, duration),
                           rand_heading)
             ELSE [gnss |-> Move([g1 EXCEPT !.heading = VaryHeading(@, rand_heading)],
                                 duration),
                   strategy |-> s]
        ELSE [gnss |-> g1, strategy |-> s]

\* __step(duration), lines 117-162: nothing for a static simulator without a
\* strategy; else every receiver in turn, the primary first, all with the one
\* strategy
Step(duration) ==
    /\ sim_time' = sim_time + duration
    /\ IF static /\ targeting_strategy = NoStrategy
       THEN UNCHANGED <<targeting_strategy, date_time, latlon, heading, kph, glonass>>
       ELSE \E rand1, rand2 \in RandomHeadings \cup {0} :
              LET one == StepReceiver(Gps, targeting_strategy, duration, rand1)
                  two == StepReceiver(glonass[1], one.strategy, duration, rand2)
              IN  /\ date_time' = one.gnss.date_time
                  /\ latlon' = one.gnss.latlon
                  /\ heading' = one.gnss.heading
                  /\ kph' = one.gnss.kph
                  /\ IF glonass = << >>
                     THEN /\ rand2 = 0
                          /\ glonass' = glonass
                          /\ targeting_strategy' = one.strategy
                     ELSE /\ glonass' = <<two.gnss>>
                          /\ targeting_strategy' = two.strategy
    /\ UNCHANGED <<has_rtc, num_sats, has_fix>>

\* A thread is alive from start() until its target returns or raises.
IsAlive(w) == wpc[w] \notin {"new", "dead", "crashed"}

\* is_running(), lines 235-238: self.__run.is_set() or self.__worker and
\* self.__worker.is_alive(), as a truth value
is_running == run \/ (worker # NoThread /\ IsAlive(worker))

(* -------------------------------- Init --------------------------------- *)
\* line 32: no worker thread was started yet
NotServing ==
    /\ worker = NoThread
    /\ wpc = [w \in Workers |-> "new"]
    /\ cop = "none"
    /\ serves = 0

\* lines 33-42 of __init__, with no operation running and nothing observed yet
Constructed ==
    /\ run = FALSE
    /\ lock = NoThread
    /\ stream_lock = NoThread
    /\ sentence_stream = << >>
    /\ log_file_handle = FALSE
    /\ auto_log_file = FALSE
    /\ sentences = [w \in Workers |-> Unbound]
    /\ wi = [w \in Workers |-> 0]
    /\ wts = [w \in Workers |-> 0]
    /\ cpc = "idle"
    /\ calls = 0
    /\ kpc = [c \in Clients |-> "idle"]
    /\ ki = [c \in Clients |-> 0]
    /\ kstart = [c \in Clients |-> 0]
    /\ know = [c \in Clients |-> 0]
    /\ kdur = [c \in Clients |-> 0]
    /\ ticks = 0
    /\ appended = << >>
    /\ delivered = << >>
    /\ sink = << >>
    /\ last_event = [w \in Workers |-> "none"]
    /\ log_failed = [w \in Workers |-> FALSE]
    /\ flag_cleared = [w \in Workers |-> {}]
    /\ sim_time = 0
    /\ drained = << >>
    /\ kbatches = [c \in Clients |-> 0]
    /\ last_call = << >>
    /\ nsteps = 0
    /\ targeting_log = << >>

\* Simulator(gps): one receiver that has an RTC and no fix yet, no strategy;
\* then interval = 2.0
OneReceiver ==
    /\ targeting_strategy = NoStrategy
    /\ date_time = 0
    /\ has_rtc = TRUE
    /\ num_sats = 0
    /\ has_fix = FALSE
    /\ latlon = Meridian(0)
    /\ heading = 0
    /\ kph = 0
    /\ glonass = << >>
    /\ static = FALSE
    /\ heading_variation = 0
    /\ interval = 2
    /\ step = 1

Init == Constructed /\ NotServing /\ OneReceiver

(* ------------------------- worker: __action ---------------------------- *)
\* line 174: self.__run.set()
WorkerSet(w) ==
    /\ wpc[w] = "w_set"
    /\ run' = TRUE
    /\ wpc' = [wpc EXCEPT ![w] = "w_while"]
    /\ UNCHANGED <<cfgVars, obsVars, calls, lock, stream_lock, worker, sentence_stream, log_file_handle,
                   auto_log_file, targeting_strategy, gnssVars, sentences, wi, wts, ctlVars, clientVars, histVars>>

\* line 175-176: while self.__run.is_set(): start = time.monotonic()
WorkerWhile(w) ==
    /\ wpc[w] = "w_while"
    /\ \/ /\ run
          /\ ticks < MaxTicks
          /\ wpc' = [wpc EXCEPT ![w] = "w_if_emit"]
          /\ ticks' = ticks + 1
       \/ /\ ~run
          /\ wpc' = [wpc EXCEPT ![w] = "dead"]
          /\ ticks' = ticks
    /\ UNCHANGED <<cfgVars, obsVars, calls, simVars, gnssVars, sentences, wi, wts, ctlVars,
                   clientVars, appended, delivered, sink, last_event,
                   log_failed, flag_cleared>>

\* line 177: if self.__run.is_set():
WorkerIfEmit(w) ==
    /\ wpc[w] = "w_if_emit"
    /\ wpc' = [wpc EXCEPT ![w] = IF run THEN "w_lock" ELSE "w_if_write"]
    /\ UNCHANGED <<cfgVars, obsVars, calls, simVars, gnssVars, sentences, wi, wts, ctlVars,
                   clientVars, histVars>>

\* lines 178-185 and 341-342: with self.lock: the batch is generated; when it
\* is not empty _add_to_stream is called, which reads the wall clock and then
\* asks for the stream lock.
WorkerEmit(w) ==
    /\ wpc[w] = "w_lock"
    /\ lock = NoThread
    /\ sentences' = [sentences EXCEPT ![w] = Output]
    /\ last_event' = [last_event EXCEPT ![w] = "emit"]
    /\ log_failed' = [log_failed EXCEPT ![w] = FALSE]
    /\ IF Len(Output) > 0
       THEN /\ lock' = w
            /\ wts' = [wts EXCEPT ![w] = Now]
            /\ wpc' = [wpc EXCEPT ![w] = "w_stream_wait"]
       ELSE /\ lock' = NoThread
            /\ UNCHANGED <<wts>>
            /\ wpc' = [wpc EXCEPT ![w] = "w_if_write"]
    /\ UNCHANGED <<cfgVars, obsVars, calls, run, stream_lock, worker, sentence_stream, log_file_handle,
                   auto_log_file, targeting_strategy, gnssVars, wi, ctlVars,
                   clientVars, ticks, appended, delivered, sink, flag_cleared>>

\* line 344: with self._stream_lock:
WorkerStreamLock(w) ==
    /\ wpc[w] = "w_stream_wait"
    /\ stream_lock = NoThread
    /\ stream_lock' = w
    /\ wi' = [wi EXCEPT ![w] = 1]
    /\ wpc' = [wpc EXCEPT ![w] = "w_add"]
    /\ UNCHANGED <<cfgVars, obsVars, calls, run, lock, worker, sentence_stream, log_file_handle,
                   auto_log_file, targeting_strategy, gnssVars, sentences, wts, ctlVars, clientVars, histVars>>

\* The log write without its try/except: a failed write leaves the loop.
LogWriteEscapesUncaught(failed) == failed

\* lines 351-356: the log write sits in try/except Exception: whether a failed
\* write escapes the loop of _add_to_stream. The except clause reports it and
\* the loop goes on, so none does.
LogWriteEscapes(failed) == FALSE

\* lines 345-356: one pass of the loop over the batch: the pair is appended,
\* then written to the log file when one is open; the write succeeds or
\* raises. After the last pass both locks are released (the ends of the two
\* with blocks, lines 344 and 178).
WorkerAdd(w) ==
    /\ wpc[w] = "w_add"
    /\ IF wi[w] <= Len(sentences[w])
       THEN /\ sentence_stream' = Append(sentence_stream, <<wts[w], sentences[w][wi[w]]>>)
            /\ appended' = Append(appended, <<wts[w], sentences[w][wi[w]]>>)
            /\ \E failed \in (IF log_file_handle THEN BOOLEAN ELSE {FALSE}) :
                 /\ log_failed' = [log_failed EXCEPT ![w] = @ \/ failed]
                 /\ IF LogWriteEscapes(failed)
                    THEN /\ wpc' = [wpc EXCEPT ![w] = "crashed"]
                         /\ lock' = NoThread
                         /\ stream_lock' = NoThread
                         /\ wi' = wi
                    ELSE /\ wi' = [wi EXCEPT ![w] = @ + 1]
                         /\ UNCHANGED <<wpc, lock, stream_lock>>
       ELSE /\ lock' = NoThread
            /\ stream_lock' = NoThread
            /\ wpc' = [wpc EXCEPT ![w] = "w_if_write"]
            /\ UNCHANGED <<sentence_stream, appended, log_failed, wi>>
    /\ UNCHANGED <<cfgVars, obsVars, calls, run, worker, log_file_handle, auto_log_file,
                   targeting_strategy, gnssVars, sentences, wts,
                   ctlVars, clientVars, ticks, delivered, sink, last_event,
                   flag_cleared>>

\* line 187: if self.__run.is_set(): for sentence in sentences:
\* (`sentences` is unbound when no batch was generated in this thread yet)
WorkerIfWrite(w) ==
    /\ wpc[w] = "w_if_write"
    /\ IF run
       THEN IF sentences[w] = Unbound
            THEN wpc' = [wpc EXCEPT ![w] = "crashed"] /\ wi' = wi
            ELSE wpc' = [wpc EXCEPT ![w] = "w_write_chk"] /\ wi' = [wi EXCEPT ![w] = 1]
       ELSE wpc' = [wpc EXCEPT ![w] = "w_sleep"] /\ wi' = wi
    /\ UNCHANGED <<cfgVars, obsVars, calls, simVars, gnssVars, sentences, wts, ctlVars,
                   clientVars, histVars>>

\* lines 188-190: the next sentence of the batch, if any; break when the run
\* flag is cleared
WorkerWriteCheck(w) ==
    /\ wpc[w] = "w_write_chk"
    /\ wpc' = [wpc EXCEPT ![w] =
                 IF wi[w] <= Len(sentences[w]) /\ run THEN "w_write" ELSE "w_sleep"]
    /\ UNCHANGED <<cfgVars, obsVars, calls, simVars, gnssVars, sentences, wi, wts, ctlVars,
                   clientVars, histVars>>

\* The outcomes of __write (lines 164-169): the sink took the line (as text,
\* or as bytes after a TypeError), or the write raised.
WriteOutcomes == {"written", "raised"}

\* A worker that swallows a failed sink write and goes on with the next
\* sentence of the batch.
WorkerWriteSkipsFailed(w) ==
    /\ wpc[w] = "w_write"
    /\ \E outcome \in WriteOutcomes :
         /\ sink' = IF outcome = "written"
                    THEN Append(sink, <<wts[w], sentences[w][wi[w]]>>)
                    ELSE sink
         /\ wi' = [wi EXCEPT ![w] = @ + 1]
         /\ wpc' = [wpc EXCEPT ![w] = "w_write_chk"]
    /\ UNCHANGED <<cfgVars, obsVars, calls, simVars, gnssVars, sentences, wts, ctlVars,
                   clientVars, ticks, appended, delivered, last_event,
                   log_failed, flag_cleared>>

\* line 191: self.__write(output, sentence, delimiter); an error other than
\* the TypeError of the first attempt is caught nowhere in __action and ends
\* the thread, the run flag still set.
WorkerWrite(w) ==
    /\ wpc[w] = "w_write"
    /\ \E outcome \in WriteOutcomes :
         IF outcome = "written"
         THEN /\ sink' = Append(sink, <<wts[w], sentences[w][wi[w]]>>)
              /\ wi' = [wi EXCEPT ![w] = @ + 1]
              /\ wpc' = [wpc EXCEPT ![w] = "w_write_chk"]
         ELSE /\ wpc' = [wpc EXCEPT ![w] = "crashed"]
              /\ UNCHANGED <<sink, wi>>
    /\ UNCHANGED <<cfgVars, obsVars, calls, simVars, gnssVars, sentences, wts, ctlVars,
                   clientVars, ticks, appended, delivered, last_event,
                   log_failed, flag_cleared>>

\* lines 193-196: the sleep in chunks of 0.1 s, until the interval has passed
\* or the run flag is cleared
WorkerSleep(w) ==
    /\ wpc[w] = "w_sleep"
    /\ wpc' = [wpc EXCEPT ![w] = "w_if_step"]
    /\ UNCHANGED <<cfgVars, obsVars, calls, simVars, gnssVars, sentences, wi, wts, ctlVars,
                   clientVars, histVars>>

\* A worker that goes round its loop without calling __step.
WorkerIfStepSkips(w) ==
    /\ wpc[w] = "w_if_step"
    /\ wpc' = [wpc EXCEPT ![w] = "w_while"]
    /\ UNCHANGED <<cfgVars, obsVars, calls, simVars, gnssVars, sentences, wi, wts, ctlVars,
                   clientVars, histVars>>

\* line 197: if self.__run.is_set():
WorkerIfStep(w) ==
    /\ wpc[w] = "w_if_step"
    /\ wpc' = [wpc EXCEPT ![w] = IF run THEN "w_step_lock" ELSE "w_while"]
    /\ UNCHANGED <<cfgVars, obsVars, calls, simVars, gnssVars, sentences, wi, wts, ctlVars,
                   clientVars, histVars>>

\* line 198: with self.lock:
WorkerStepLock(w) ==
    /\ wpc[w] = "w_step_lock"
    /\ lock = NoThread
    /\ lock' = w
    /\ wpc' = [wpc EXCEPT ![w] = "w_step"]
    /\ UNCHANGED <<cfgVars, obsVars, calls, run, stream_lock, worker, sentence_stream, log_file_handle,
                   auto_log_file, targeting_strategy, gnssVars, sentences, wi, wts, ctlVars, clientVars, histVars>>

\* The worker measures from time.monotonic() how long the iteration took: the
\* interval the sleep of lines 195-196 waits for, or more
Elapsed == interval..(interval + MaxLag)

\* lines 199-202: self.__step(...) under the lock, which is then released: by
\* the measured time when step == interval, else by the step
WorkerStep(w) ==
    /\ wpc[w] = "w_step"
    /\ IF step = interval
       THEN \E elapsed \in Elapsed : Step(elapsed)
       ELSE Step(step)
    /\ last_event' = [last_event EXCEPT ![w] = "step"]
    /\ lock' = NoThread
    /\ wpc' = [wpc EXCEPT ![w] = "w_while"]
    /\ UNCHANGED <<cfgVars, drained, kbatches, last_call, nsteps, targeting_log, calls, run,
                   stream_lock, worker, sentence_stream, log_file_handle,
                   auto_log_file, sentences, wi, wts, ctlVars, clientVars, ticks,
                   appended, delivered, sink, log_failed, flag_cleared>>

(* ------------------ controlling thread: serve, kill -------------------- *)
\* serve() without the kill() of line 210: the new thread is started at once.
CtlServeWithoutKill ==
    /\ cpc = "idle"
    /\ calls < MaxCalls
    /\ calls' = calls + 1
    /\ cop' = "serve"
    /\ cpc' = "serve_start"
    /\ UNCHANGED <<cfgVars, obsVars, simVars, gnssVars, workerVars, serves, clientVars, histVars>>

\* line 210: serve() begins with self.kill()
CtlServe ==
    /\ cpc = "idle"
    /\ calls < MaxCalls
    /\ calls' = calls + 1
    /\ cop' = "serve"
    /\ cpc' = "kill_check"
    /\ UNCHANGED <<cfgVars, obsVars, simVars, gnssVars, workerVars, serves,
                   clientVars, histVars>>

\* line 223: kill()
CtlKill ==
    /\ cpc = "idle"
    /\ calls < MaxCalls
    /\ calls' = calls + 1
    /\ cop' = "kill"
    /\ cpc' = "kill_check"
    /\ UNCHANGED <<cfgVars, obsVars, simVars, gnssVars, workerVars, serves,
                   clientVars, histVars>>

\* kill() looping on the run flag instead of the thread: it returns as soon as
\* the flag is seen cleared.
CtlKillCheckRunFlag ==
    /\ cpc = "kill_check"
    /\ cpc' = IF worker # NoThread /\ run THEN "kill_clear"
              ELSE IF cop = "serve" THEN "serve_start" ELSE "idle"
    /\ UNCHANGED <<cfgVars, obsVars, calls, simVars, gnssVars, workerVars, cop, serves,
                   clientVars, histVars>>

\* line 227: while self.__worker and self.__worker.is_alive():
\* when the loop ends kill() returns: to its caller, or into serve()
CtlKillCheck ==
    /\ cpc = "kill_check"
    /\ cpc' = IF worker # NoThread /\ IsAlive(worker) THEN "kill_clear"
              ELSE IF cop = "serve" THEN "serve_start" ELSE "idle"
    /\ UNCHANGED <<cfgVars, obsVars, calls, simVars, gnssVars, workerVars, cop, serves,
                   clientVars, histVars>>

\* lines 228-229: self.__run.clear(); self.__worker.join(0.1), which returns
\* when the worker has ended or the 0.1 s have passed
CtlKillClear ==
    /\ cpc = "kill_clear"
    /\ run' = FALSE
    /\ flag_cleared' = [w \in Workers |->
                          IF ~IsAlive(w) THEN flag_cleared[w]
                          ELSE flag_cleared[w] \cup
                               {IF wpc[w] = "w_set" THEN "before_set" ELSE "in_loop"}]
    /\ cpc' = "kill_check"
    /\ UNCHANGED <<cfgVars, obsVars, calls, lock, stream_lock, worker, sentence_stream, log_file_handle,
                   auto_log_file, targeting_strategy, gnssVars, workerVars, cop, serves, clientVars, ticks, appended,
                   delivered, sink, last_event, log_failed>>

\* lines 211-215: the new thread is created, stored in self.__worker and
\* started; blocking = False, so serve() returns
CtlServeStart ==
    /\ cpc = "serve_start"
    /\ serves' = serves + 1
    /\ worker' = serves + 1
    /\ wpc' = [wpc EXCEPT ![serves + 1] = "w_set"]
    /\ cpc' = "idle"
    /\ UNCHANGED <<cfgVars, obsVars, calls, run, lock, stream_lock, sentence_stream, log_file_handle,
                   auto_log_file, targeting_strategy, gnssVars, sentences, wi, wts, cop, clientVars, histVars>>

\* lines 282-311: start_auto_logging(): an open log is closed first; the file
\* name is stored, then the file is opened, which succeeds or raises (the
\* error is caught and None returned)
CtlStartAutoLogging ==
    /\ cpc = "idle"
    /\ calls < MaxCalls
    /\ calls' = calls + 1
    /\ \E opened \in BOOLEAN :
         /\ auto_log_file' = TRUE
         /\ log_file_handle' = opened
    /\ UNCHANGED <<cfgVars, obsVars, run, lock, stream_lock, worker, sentence_stream,
                   targeting_strategy, gnssVars, workerVars,
                   ctlVars, clientVars, histVars>>

\* lines 313-326: stop_auto_logging()
CtlStopAutoLogging ==
    /\ cpc = "idle"
    /\ calls < MaxCalls
    /\ calls' = calls + 1
    /\ IF log_file_handle
       THEN log_file_handle' = FALSE /\ auto_log_file' = FALSE
       ELSE UNCHANGED <<log_file_handle, auto_log_file>>
    /\ UNCHANGED <<cfgVars, obsVars, run, lock, stream_lock, worker, sentence_stream,
                   targeting_strategy, gnssVars, workerVars,
                   ctlVars, clientVars, histVars>>

\* get_log_filename(), lines 328-330: self._auto_log_file is not None
get_log_filename == auto_log_file

(* --------------------- clients: the public operations ------------------ *)
\* The strategies a client installs with set_targeting()
Strategies == {LinearTargeting(Meridian(100), 36, TRUE, 10)}

\* A client thread that runs no operation calls one. The client threads are
\* interchangeable, so the call is made by the idle one of least number.
CanCall(c) ==
    /\ kpc[c] = "idle"
    /\ calls < MaxCalls
    /\ \A c2 \in Clients : c2 < c => kpc[c2] # "idle"

\* line 334: get_new_sentences(): with self._stream_lock:
GnsLock(c) ==
    /\ CanCall(c)
    /\ calls' = calls + 1
    /\ stream_lock = NoThread
    /\ stream_lock' = c
    /\ kpc' = [kpc EXCEPT ![c] = "gns_hold"]
    /\ UNCHANGED <<cfgVars, obsVars, run, lock, worker, sentence_stream, log_file_handle,
                   auto_log_file, targeting_strategy, gnssVars, workerVars, ctlVars, ki, kstart, know, kdur,
                   histVars>>

\* get_new_sentences() calling, under the stream lock, something that takes
\* the state lock.
GnsDrainTakesStateLock(c) ==
    /\ kpc[c] = "gns_hold"
    /\ lock = NoThread
    /\ lock' = c
    /\ UNCHANGED <<cfgVars, obsVars, calls, run, stream_lock, worker, sentence_stream,
                   log_file_handle, auto_log_file, targeting_strategy,
                   gnssVars, workerVars, ctlVars, clientVars, histVars>>

\* get_new_sentences() returning the copy without clearing the buffer.
GnsDrainWithoutClear(c) ==
    /\ kpc[c] = "gns_hold"
    /\ delivered' = delivered \o sentence_stream
    /\ drained' = Append(drained, [returned |-> Len(sentence_stream),
                                    appended |-> Len(appended)])
    /\ stream_lock' = NoThread
    /\ kpc' = [kpc EXCEPT ![c] = "idle"]
    /\ UNCHANGED <<cfgVars, sim_time, kbatches, last_call, nsteps, targeting_log, calls, run, lock, worker, sentence_stream, log_file_handle,
                   auto_log_file, targeting_strategy, gnssVars, workerVars,
                   ctlVars, ki, kstart, know, kdur, ticks, appended, sink,
                   last_event, log_failed, flag_cleared>>

\* lines 335-337: the buffer is copied and cleared, the copy returned and the
\* stream lock released
GnsDrain(c) ==
    /\ kpc[c] = "gns_hold"
    /\ delivered' = delivered \o sentence_stream
    /\ drained' = Append(drained, [returned |-> Len(sentence_stream),
                                    appended |-> Len(appended)])
    /\ sentence_stream' = << >>
    /\ stream_lock' = NoThread
    /\ kpc' = [kpc EXCEPT ![c] = "idle"]
    /\ UNCHANGED <<cfgVars, sim_time, kbatches, last_call, nsteps, targeting_log, calls, run, lock, worker, log_file_handle, auto_log_file,
                   targeting_strategy, gnssVars, workerVars,
                   ctlVars, ki, kstart, know, kdur, ticks, appended,
                   sink, last_event, log_failed, flag_cleared>>

\* set_targeting() going on without taking the state lock.
SetTargetingLockFree(c) ==
    /\ CanCall(c)
    /\ calls' = calls + 1
    /\ kpc' = [kpc EXCEPT ![c] = "st_hold"]
    /\ UNCHANGED <<cfgVars, obsVars, run, lock, stream_lock, worker, sentence_stream,
                   log_file_handle, auto_log_file, targeting_strategy, gnssVars,
                   workerVars, ctlVars, ki, kstart, know, kdur, histVars>>

\* line 74: set_targeting(): with self.lock:
SetTargetingLock(c) ==
    /\ CanCall(c)
    /\ calls' = calls + 1
    /\ lock = NoThread
    /\ lock' = c
    /\ kpc' = [kpc EXCEPT ![c] = "st_hold"]
    /\ UNCHANGED <<cfgVars, obsVars, run, stream_lock, worker, sentence_stream, log_file_handle,
                   auto_log_file, targeting_strategy, gnssVars, workerVars,
                   ctlVars, ki, kstart, know, kdur, histVars>>

\* line 83: clear_targeting(): with self.lock:
ClearTargetingLock(c) ==
    /\ CanCall(c)
    /\ calls' = calls + 1
    /\ lock = NoThread
    /\ lock' = c
    /\ kpc' = [kpc EXCEPT ![c] = "ct_hold"]
    /\ UNCHANGED <<cfgVars, obsVars, run, stream_lock, worker, sentence_stream, log_file_handle,
                   auto_log_file, targeting_strategy, gnssVars, workerVars,
                   ctlVars, ki, kstart, know, kdur, histVars>>

\* what the targeting log keeps of an operation that returns
Logged(op) ==
    [op |-> op, gps |-> Gps', glonass |-> glonass', sim_time |-> sim_time']

\* clear_targeting() removing the strategy altogether.
ClearTargetingToNone(c) ==
    /\ kpc[c] = "ct_hold"
    /\ targeting_strategy' = NoStrategy
    /\ lock' = NoThread
    /\ kpc' = [kpc EXCEPT ![c] = "idle"]
    /\ UNCHANGED <<cfgVars, sim_time, drained, kbatches, last_call, nsteps, calls,
                   run, stream_lock, worker, sentence_stream, log_file_handle,
                   auto_log_file, gnssVars, workerVars, ctlVars, ki, kstart,
                   know, kdur, histVars>>
    /\ targeting_log' = Append(targeting_log, Logged("clear"))

\* line 75: self._targeting_strategy = strategy
SetTargeting(c) ==
    /\ kpc[c] = "st_hold"
    /\ \E strategy \in Strategies : targeting_strategy' = strategy
    /\ lock' = NoThread
    /\ kpc' = [kpc EXCEPT ![c] = "idle"]
    /\ UNCHANGED <<cfgVars, sim_time, drained, kbatches, last_call, nsteps, calls, run, stream_lock, worker, sentence_stream, log_file_handle,
                   auto_log_file, gnssVars, workerVars, ctlVars, ki, kstart, know, kdur, histVars>>
    /\ targeting_log' = Append(targeting_log, Logged("set"))

\* line 84: self._targeting_strategy = StaticTargeting()
ClearTargeting(c) ==
    /\ kpc[c] = "ct_hold"
    /\ targeting_strategy' = StaticTargeting
    /\ lock' = NoThread
    /\ kpc' = [kpc EXCEPT ![c] = "idle"]
    /\ UNCHANGED <<cfgVars, sim_time, drained, kbatches, last_call, nsteps, calls, run, stream_lock, worker, sentence_stream, log_file_handle,
                   auto_log_file, gnssVars, workerVars, ctlVars, ki, kstart, know, kdur, histVars>>
    /\ targeting_log' = Append(targeting_log, Logged("clear"))

\* lines 271-273: output_latest(): with self.lock: the batch of the current
\* instant
OutputLatestLock(c) ==
    /\ CanCall(c)
    /\ calls' = calls + 1
    /\ lock = NoThread
    /\ lock' = c
    /\ ki' = [ki EXCEPT ![c] = 1]
    /\ kpc' = [kpc EXCEPT ![c] = "ol_write"]
    /\ UNCHANGED <<cfgVars, obsVars, run, stream_lock, worker, sentence_stream, log_file_handle,
                   auto_log_file, targeting_strategy, gnssVars, workerVars, ctlVars, kstart, know, kdur, histVars>>

\* line 274: self.__write(...) inside the with block, once per sentence; the
\* lock is released when the loop ends or a write raises
OutputLatestWrite(c) ==
    /\ kpc[c] = "ol_write"
    /\ IF ki[c] <= Len(Output)
       THEN \E outcome \in WriteOutcomes :
              IF outcome = "written"
              THEN /\ ki' = [ki EXCEPT ![c] = @ + 1]
                   /\ UNCHANGED <<lock, kpc>>
              ELSE /\ lock' = NoThread
                   /\ kpc' = [kpc EXCEPT ![c] = "idle"]
                   /\ ki' = ki
       ELSE /\ lock' = NoThread
            /\ kpc' = [kpc EXCEPT ![c] = "idle"]
            /\ ki' = ki
    /\ UNCHANGED <<cfgVars, obsVars, calls, run, stream_lock, worker, sentence_stream, log_file_handle,
                   auto_log_file, targeting_strategy, gnssVars, workerVars, ctlVars, kstart, know, kdur,
                   histVars>>

\* lines 244-246: get_output(): with self.lock: start = self.gps.date_time;
\* now = start
GenerateStart(c) ==
    /\ CanCall(c)
    /\ calls' = calls + 1
    /\ \E duration \in 1..MaxDuration : kdur' = [kdur EXCEPT ![c] = duration]
    /\ lock = NoThread
    /\ kstart' = [kstart EXCEPT ![c] = date_time]
    /\ know' = [know EXCEPT ![c] = date_time]
    /\ kpc' = [kpc EXCEPT ![c] = "g_while"]
    /\ kbatches' = [kbatches EXCEPT ![c] = 0]
    /\ UNCHANGED <<cfgVars, sim_time, drained, last_call, nsteps, targeting_log, simVars,
                   gnssVars, workerVars, ctlVars, ki, histVars>>

\* line 247: while (now - start).total_seconds() < duration:
GenerateWhile(c) ==
    /\ kpc[c] = "g_while"
    /\ kpc' = [kpc EXCEPT ![c] =
                 IF know[c] - kstart[c] < kdur[c] THEN "g_wait" ELSE "idle"]
    /\ UNCHANGED <<cfgVars, obsVars, calls, simVars, gnssVars, workerVars, ctlVars, ki,
                   kstart, know, kdur, histVars>>

\* lines 248-251: with self.lock: the batch of the current instant
GenerateLock(c) ==
    /\ kpc[c] = "g_wait"
    /\ kbatches[c] < MaxBatches
    /\ lock = NoThread
    /\ lock' = c
    /\ ki' = [ki EXCEPT ![c] = 1]
    /\ kbatches' = [kbatches EXCEPT ![c] = @ + 1]
    /\ kpc' = [kpc EXCEPT ![c] = "g_yield"]
    /\ UNCHANGED <<cfgVars, sim_time, drained, last_call, nsteps, targeting_log, calls, run, stream_lock, worker, sentence_stream, log_file_handle,
                   auto_log_file, targeting_strategy, gnssVars, workerVars, ctlVars, kstart, know, kdur, histVars>>

\* lines 252-253 and 263-264: each sentence is yielded inside the with block
\* and generate() writes it before the generator resumes; a write that raises
\* ends generate(), and the abandoned generator leaves its with block
GenerateYield(c) ==
    /\ kpc[c] = "g_yield"
    /\ ki[c] <= Len(Output)
    /\ \E outcome \in WriteOutcomes :
         IF outcome = "written"
         THEN /\ ki' = [ki EXCEPT ![c] = @ + 1]
              /\ UNCHANGED <<lock, kpc>>
         ELSE /\ lock' = NoThread
              /\ kpc' = [kpc EXCEPT ![c] = "idle"]
              /\ ki' = ki
    /\ UNCHANGED <<cfgVars, obsVars, calls, run, stream_lock, worker, sentence_stream, log_file_handle,
                   auto_log_file, targeting_strategy, gnssVars, workerVars, ctlVars, kstart, know, kdur,
                   histVars>>

\* lines 254-255: self.__step(self.step); now = self.gps.date_time; the with
\* block ends
GenerateStep(c) ==
    /\ kpc[c] = "g_yield"
    /\ ki[c] > Len(Output)
    /\ Step(step)
    /\ know' = [know EXCEPT ![c] = date_time']
    /\ lock' = NoThread
    /\ kpc' = [kpc EXCEPT ![c] = "g_while"]
    /\ UNCHANGED <<cfgVars, drained, kbatches, last_call, nsteps, targeting_log, calls, run,
                   stream_lock, worker, sentence_stream, log_file_handle,
                   auto_log_file, workerVars, ctlVars, ki, kstart, kdur,
                   histVars>>

(* ---------------------------- specification ---------------------------- *)
WorkerNext(w) ==
    \/ WorkerSet(w)
    \/ WorkerWhile(w)
    \/ WorkerIfEmit(w)
    \/ WorkerEmit(w)
    \/ WorkerStreamLock(w)
    \/ WorkerAdd(w)
    \/ WorkerIfWrite(w)
    \/ WorkerWriteCheck(w)
    \/ WorkerWrite(w)
    \/ WorkerSleep(w)
    \/ WorkerIfStep(w)
    \/ WorkerStepLock(w)
    \/ WorkerStep(w)

CtlNext ==
    \/ CtlServe
    \/ CtlKill
    \/ CtlKillCheck
    \/ CtlKillClear
    \/ CtlServeStart
    \/ CtlStartAutoLogging
    \/ CtlStopAutoLogging

ClientNext(c) ==
    \/ GnsLock(c)
    \/ GnsDrain(c)
    \/ SetTargetingLock(c)
    \/ ClearTargetingLock(c)
    \/ SetTargeting(c)
    \/ ClearTargeting(c)
    \/ OutputLatestLock(c)
    \/ OutputLatestWrite(c)
    \/ GenerateStart(c)
    \/ GenerateWhile(c)
    \/ GenerateLock(c)
    \/ GenerateYield(c)
    \/ GenerateStep(c)

Next ==
    \/ \E w \in Workers : WorkerNext(w)
    \/ CtlNext
    \/ \E c \in Clients : ClientNext(c)

Spec == Init /\ [][Next]_vars

\* The scheduler runs every thread that can take a step: a started worker, the
\* controlling thread inside serve() or kill(), a client inside an operation
\* (its sink writes return). Nobody is obliged to call an operation.
FairSpec ==
    /\ Spec
    /\ \A w \in Workers : WF_vars(WorkerNext(w))
    /\ WF_vars(CtlKillCheck \/ CtlKillClear \/ CtlServeStart)
    /\ \A c \in Clients :
         WF_vars(GnsDrain(c) \/ SetTargeting(c) \/ ClearTargeting(c)
                 \/ OutputLatestWrite(c) \/ GenerateWhile(c) \/ GenerateLock(c)
                 \/ GenerateYield(c) \/ GenerateStep(c))

(* ------------------- the driver with other receivers ------------------- *)
\* a receiver at the reference point, at rest: with or without an RTC, with or
\* without satellites in view, with or without a fix
ReceiverAt0(rtc, sats, fix) == Receiver(0, rtc, sats, fix, Meridian(0), 0, 0)

\* Simulator(gps, glonass, static, heading_variation) with interval and step
\* set and a strategy installed or removed with set_targeting() (a static
\* simulator is left without one by set_targeting(None)): the simulators the
\* driver is run with below
Simulator(gps, second, strategy, is_static, variation, seconds, advance) ==
    [gps |-> gps, glonass |-> second, strategy |-> strategy, static |-> is_static,
     heading_variation |-> variation, interval |-> seconds, step |-> advance]

Simulators ==
    {Simulator(ReceiverAt0(TRUE, 0, FALSE), << >>, NoStrategy, FALSE, 0, 1, 1),
     Simulator(ReceiverAt0(FALSE, 0, FALSE), << >>, NoStrategy, FALSE, 0, 2, 1),
     Simulator(ReceiverAt0(FALSE, 4, TRUE), <<ReceiverAt0(FALSE, 0, FALSE)>>,
               CircularTargeting(Meridian(0), 100, 100, TRUE, 0), FALSE, 0, 2, 1),
     Simulator(ReceiverAt0(FALSE, 4, TRUE), <<ReceiverAt0(FALSE, 4, TRUE)>>,
               CircularTargeting(Meridian(0), 100, 100, FALSE, 300), FALSE, 0, 1, 1),
     Simulator(ReceiverAt0(TRUE, 4, TRUE), << >>,
               CircularTargeting(Meridian(0), 100, 100, TRUE, 0), FALSE, 2, 1, 2),
     Simulator(ReceiverAt0(TRUE, 4, FALSE), << >>, NoStrategy, TRUE, 0, 1, 1),
     Simulator(ReceiverAt0(FALSE, 4, FALSE), <<ReceiverAt0(TRUE, 4, TRUE)>>,
               NoStrategy, FALSE, 2, 1, 2)}

DriverInit ==
    /\ Constructed
    /\ NotServing
    /\ \E sim \in Simulators :
         /\ date_time = sim.gps.date_time
         /\ has_rtc = sim.gps.has_rtc
         /\ num_sats = sim.gps.num_sats
         /\ has_fix = sim.gps.has_fix
         /\ latlon = sim.gps.latlon
         /\ heading = sim.gps.heading
         /\ kph = sim.gps.kph
         /\ glonass = sim.glonass
         /\ targeting_strategy = sim.strategy
         /\ static = sim.static
         /\ heading_variation = sim.heading_variation
         /\ interval = sim.interval
         /\ step = sim.step

\* serve() called again and again, and the workers it starts
ServeNext ==
    \/ \E w \in Workers : WorkerNext(w)
    \/ CtlServe
    \/ CtlKillCheck
    \/ CtlKillClear
    \/ CtlServeStart

ServeSpec == DriverInit /\ [][ServeNext]_vars

\* generate() called with no worker thread started
GenerateNext ==
    \E c \in Clients :
        \/ GenerateStart(c)
        \/ GenerateWhile(c)
        \/ GenerateLock(c)
        \/ GenerateYield(c)
        \/ GenerateStep(c)

GenerateSpec == DriverInit /\ [][GenerateNext]_vars

(* ------------------- the driver of a moving receiver ------------------- *)
\* what is installed when a receiver is left to itself: nothing (a Simulator
\* that is not static, line 56), a strategy after set_active(False), or the
\* StaticTargeting of clear_targeting()
DriftStrategies ==
    {NoStrategy,
     [LinearTargeting(Meridian(30), 72, TRUE, 10) EXCEPT !.is_active = FALSE],
     [CircularTargeting(Meridian(0), 100, 100, TRUE, 0) EXCEPT !.is_active = FALSE],
     StaticTargeting}

\* Simulator(gps, heading_variation=...) with a receiver that has a fix and
\* goes north at 36 km/h
DriftInit ==
    /\ Constructed
    /\ NotServing
    /\ targeting_strategy \in DriftStrategies
    /\ date_time = 0
    /\ has_rtc = TRUE
    /\ num_sats = 4
    /\ has_fix = TRUE
    /\ latlon = Meridian(0)
    /\ heading = 0
    /\ kph = 36
    /\ glonass = << >>
    /\ static = FALSE
    /\ heading_variation \in {0, 2}
    /\ interval = 1
    /\ step \in {1, 2}

\* serve() and kill() called again and again, and the workers serve() starts
DriftSpec == DriftInit /\ [][ServeNext]_vars

(* ---------------- the driver with a strategy installed ----------------- *)
\* Simulator(gps) or Simulator(gps, glonass) with receivers that have a fix,
\* after set_targeting(LinearTargeting(...)): every tick advances the strategy
InstallInit ==
    /\ Constructed
    /\ NotServing
    /\ targeting_strategy = LinearTargeting(Meridian(30), 72, TRUE, 10)
    /\ date_time = 0
    /\ has_rtc = TRUE
    /\ num_sats = 4
    /\ has_fix = TRUE
    /\ latlon = Meridian(0)
    /\ heading = 0
    /\ kph = 0
    /\ glonass \in {<< >>, <<ReceiverAt0(TRUE, 4, TRUE)>>}
    /\ static = FALSE
    /\ heading_variation = 0
    /\ interval = 1
    /\ step = 1

\* serve() called again and again, the workers it starts, and clients calling
\* set_targeting() and clear_targeting()
InstallNext ==
    \/ ServeNext
    \/ \E c \in Clients :
          \/ SetTargetingLock(c)
          \/ SetTargeting(c)
          \/ ClearTargetingLock(c)
          \/ ClearTargeting(c)

InstallSpec == InstallInit /\ [][InstallNext]_vars

(* ------------------------ the stream of a server ----------------------- *)
\* serve(blocking = False) has returned: its worker thread is started (lines
\* 211-215). The operations counted are those called from then on.
Serving ==
    /\ worker = 1
    /\ wpc = [w \in Workers |-> IF w = 1 THEN "w_set" ELSE "new"]
    /\ cop = "serve"
    /\ serves = 1

StreamInit == Constructed /\ Serving /\ OneReceiver

\* the worker, observers calling get_new_sentences(), and kill()
StreamNext ==
    \/ \E w \in Workers : WorkerNext(w)
    \/ \E c \in Clients : GnsLock(c) \/ GnsDrain(c)
    \/ CtlKill
    \/ CtlKillCheck
    \/ CtlKillClear

StreamSpec == StreamInit /\ [][StreamNext]_vars

(* ------------------------- a strategy on its own ----------------------- *)
\* duration_seconds of a call
Durations == {1, 2}

\* the strategies a caller constructs
TargetingStrategies ==
    {StaticTargeting}
    \cup {LinearTargeting(Meridian(n), speed_kph, stop_at_target, 10) :
            n \in {0, 30}, speed_kph \in {18, 72}, stop_at_target \in BOOLEAN}
    \cup {CircularTargeting(Meridian(0), 100, angular_velocity, clockwise, start_angle) :
            angular_velocity \in {100, 270}, clockwise \in BOOLEAN,
            start_angle \in {0, 300, 400}}
    \cup {WaypointTargeting(waypoints, speed_kph, loop, 20) :
            waypoints \in {<<Meridian(0), Meridian(30)>>,
                           <<Meridian(0), Meridian(15)>>,
                           <<Meridian(0), Meridian(30), Meridian(60)>>},
            speed_kph \in {36, 72}, loop \in BOOLEAN}

\* a strategy just constructed, and the position, heading and speed its
\* caller holds
TargetingInit ==
    /\ Constructed
    /\ NotServing
    /\ targeting_strategy \in TargetingStrategies
    /\ latlon \in {Meridian(0), Meridian(8), Meridian(40)}
    /\ heading \in {0, 90}
    /\ kph = 0
    /\ date_time = 0
    /\ has_rtc = TRUE
    /\ num_sats = 4
    /\ has_fix = TRUE
    /\ glonass = << >>
    /\ static = FALSE
    /\ heading_variation = 0
    /\ interval = 1
    /\ step = 1

\* a call as last_call holds it: the operation, the strategy and the caller's
\* position and heading before it, its arguments and what it returned
Called(op, duration_seconds, arg, result) ==
    [op |-> op, strategy |-> targeting_strategy, latlon |-> latlon,
     heading |-> heading, duration_seconds |-> duration_seconds,
     arg |-> arg, result |-> result]

\* strategy.get_next_position(...) called with the caller's position, heading
\* and speed, which the caller then replaces by the result, as lines 138-150
\* of simulator.py do
NextPosition ==
    /\ nsteps < MaxSteps
    /\ targeting_strategy.type \notin {"none", "ValueError"}
    /\ nsteps' = nsteps + 1
    /\ \E duration_seconds \in Durations :
         LET next == GetNextPosition(targeting_strategy, latlon, heading,
                                     duration_seconds)
         IN  /\ targeting_strategy' = next.strategy
             /\ latlon' = next.latlon
             /\ heading' = next.heading
             /\ kph' = next.kph
             /\ last_call' = <<Called("get_next_position", duration_seconds,
                                       << >>, << >>)>>
             /\ sim_time' = IF targeting_strategy.is_active
                            THEN sim_time + duration_seconds ELSE sim_time
    /\ UNCHANGED <<cfgVars, drained, kbatches, targeting_log, calls, run, lock,
                   stream_lock, worker, sentence_stream, log_file_handle,
                   auto_log_file, date_time, has_rtc, num_sats, has_fix, glonass,
                   workerVars, ctlVars, clientVars, histVars>>

\* TargetingStrategy.set_active(active), lines 120-122
SetActive ==
    /\ nsteps < MaxSteps
    /\ nsteps' = nsteps + 1
    /\ \E active \in BOOLEAN :
         targeting_strategy' = [targeting_strategy EXCEPT !.is_active = active]
    /\ last_call' = << >>
    /\ UNCHANGED <<cfgVars, sim_time, drained, kbatches, targeting_log, calls, run,
                   lock, stream_lock, worker, sentence_stream, log_file_handle,
                   auto_log_file, gnssVars, workerVars, ctlVars, clientVars,
                   histVars>>

TargetingNext == NextPosition \/ SetActive

TargetingSpec == TargetingInit /\ [][TargetingNext]_vars

(* ---------------------- a waypoint route on its own -------------------- *)
\* the routes a caller constructs: in Manual mode at 180 km/h, in Dynamic mode
\* with a profile; every route begins where the caller is
RouteStrategies ==
    {WaypointTargeting(<<Meridian(0), Meridian(100)>>, 180, TRUE, 5),
     WaypointTargeting(<<Meridian(0), Meridian(30), Meridian(60)>>, 180, TRUE, 5),
     WaypointTargeting(<<Meridian(0), Meridian(30), Meridian(60)>>, 180, FALSE, 5),
     DynamicWaypointTargeting(<<Meridian(0), Meridian(30), Meridian(60),
                                Meridian(90), Meridian(120)>>, FALSE, 5, "F1"),
     DynamicWaypointTargeting(<<Meridian(0), Meridian(30)>>, TRUE, 5, "F1"),
     DynamicWaypointTargeting(<<Meridian(0), Meridian(60)>>, TRUE, 5, "Go-Kart"),
     DynamicWaypointTargeting(<<Meridian(0), Meridian(30), Meridian(60)>>,
                              FALSE, 5, "Bicycle")}

\* the caller of a strategy: a receiver with a fix at the reference point
CallerInit ==
    /\ Constructed
    /\ NotServing
    /\ latlon = Meridian(0)
    /\ heading = 0
    /\ kph = 0
    /\ date_time = 0
    /\ has_rtc = TRUE
    /\ num_sats = 4
    /\ has_fix = TRUE
    /\ glonass = << >>
    /\ static = FALSE
    /\ heading_variation = 0
    /\ interval = 1
    /\ step = 1

RouteInit ==
    /\ CallerInit
    /\ targeting_strategy \in RouteStrategies

\* strategy.reset() of a waypoint strategy
Reset ==
    /\ nsteps < MaxSteps
    /\ nsteps' = nsteps + 1
    /\ targeting_strategy.type = "waypoint"
    /\ targeting_strategy' = WaypointReset(targeting_strategy)
    /\ last_call' = <<Called("reset", 0, << >>, << >>)>>
    /\ UNCHANGED <<cfgVars, sim_time, drained, kbatches, calls, run,
                   lock, stream_lock, worker, sentence_stream, log_file_handle,
                   auto_log_file, gnssVars, workerVars, ctlVars, clientVars,
                   histVars>>
    /\ targeting_log' = Append(targeting_log, Logged("reset"))

RouteNext == NextPosition \/ Reset

RouteSpec == RouteInit /\ [][RouteNext]_vars

(* ------------------- constructing and editing strategies ---------------- *)
\* speed_kph of a LinearTargeting, radius_meters of a CircularTargeting
LinearSpeeds == {-18, 36}
CircularRadii == {-100, 0, 100}

\* the arguments of WaypointTargeting(...)
WaypointArguments ==
    {[waypoints |-> << >>, speed_kph |-> 36, loop |-> TRUE,
      mode |-> "manual", speed_profile |-> "F1"],
     [waypoints |-> <<Meridian(0)>>, speed_kph |-> 36, loop |-> TRUE,
      mode |-> "manual", speed_profile |-> "F1"],
     [waypoints |-> <<Meridian(0), Meridian(30)>>, speed_kph |-> 36, loop |-> TRUE,
      mode |-> "manual", speed_profile |-> "F1"],
     [waypoints |-> <<Meridian(0), Meridian(30), Meridian(60)>>, speed_kph |-> 36,
      loop |-> TRUE, mode |-> "manual", speed_profile |-> "F1"],
     [waypoints |-> <<Meridian(0), Meridian(30)>>, speed_kph |-> -36,
      loop |-> FALSE, mode |-> "manual", speed_profile |-> "F1"],
     [waypoints |-> <<Meridian(0), Meridian(30), Meridian(60)>>, speed_kph |-> 36,
      loop |-> FALSE, mode |-> "dynamic", speed_profile |-> "F1"],
     [waypoints |-> <<Meridian(0), Meridian(30)>>, speed_kph |-> 36, loop |-> TRUE,
      mode |-> "dynamic", speed_profile |-> "Truck"],
     [waypoints |-> <<Meridian(0)>>, speed_kph |-> 36, loop |-> TRUE,
      mode |-> "dynamic", speed_profile |-> "F1"]}

\* the positions and indices of add_waypoint, the indices of remove_waypoint
AddedWaypoints == {Meridian(90)}
AddIndices == {<< >>, <<0>>, <<1>>}
RemoveIndices == {-1, 0, 1, 5}

\* no strategy has been constructed
EditInit ==
    /\ CallerInit
    /\ targeting_strategy = NoStrategy

\* what every operation of this section leaves alone
editFrame ==
    <<cfgVars, sim_time, drained, kbatches, targeting_log, calls, run, lock,
      stream_lock, worker, sentence_stream, log_file_handle, auto_log_file,
      gnssVars, workerVars, ctlVars, clientVars, histVars>>

\* LinearTargeting(target, speed_kph=...)
ConstructLinear ==
    /\ targeting_strategy = NoStrategy
    /\ \E speed_kph \in LinearSpeeds :
         /\ targeting_strategy' = LinearTargeting(Meridian(30), speed_kph, TRUE, 10)
         /\ last_call' = <<Called("LinearTargeting", 0, speed_kph, "created")>>
    /\ UNCHANGED <<nsteps, editFrame>>

\* CircularTargeting(center, radius_meters, ...)
ConstructCircular ==
    /\ targeting_strategy = NoStrategy
    /\ \E radius_meters \in CircularRadii :
         /\ targeting_strategy' =
                CircularTargeting(Meridian(0), radius_meters, 100, TRUE, 0)
         /\ last_call' = <<Called("CircularTargeting", 0, radius_meters, "created")>>
    /\ UNCHANGED <<nsteps, editFrame>>

\* WaypointTargeting(...): the caller has the strategy, or the ValueError
ConstructWaypoint ==
    /\ targeting_strategy = NoStrategy
    /\ \E a \in WaypointArguments :
         LET new == NewWaypointTargeting(a.waypoints, a.speed_kph, a.loop, 20,
                                         a.mode, a.speed_profile)
         IN  IF new = ValueError
             THEN /\ targeting_strategy' = NoStrategy
                  /\ last_call' = <<Called("WaypointTargeting", 0, a, "ValueError")>>
             ELSE /\ targeting_strategy' = new
                  /\ last_call' = <<Called("WaypointTargeting", 0, a, "created")>>
    /\ UNCHANGED <<nsteps, editFrame>>

\* strategy.add_waypoint(lat, lon, index)
AddWaypoint ==
    /\ nsteps < MaxSteps
    /\ nsteps' = nsteps + 1
    /\ targeting_strategy.type = "waypoint"
    /\ \E pos \in AddedWaypoints, index \in AddIndices :
         /\ targeting_strategy' = add_waypoint(targeting_strategy, pos, index)
         /\ last_call' = <<Called("add_waypoint", 0, index, << >>)>>
    /\ UNCHANGED editFrame

\* strategy.remove_waypoint(index)
RemoveWaypoint ==
    /\ nsteps < MaxSteps
    /\ nsteps' = nsteps + 1
    /\ targeting_strategy.type = "waypoint"
    /\ \E index \in RemoveIndices :
         /\ targeting_strategy' = remove_waypoint(targeting_strategy, index)
         /\ last_call' = <<Called("remove_waypoint", 0, index, << >>)>>
    /\ UNCHANGED editFrame

\* strategy.calculate_total_route_distance()
CalculateTotalRouteDistance ==
    /\ nsteps < MaxSteps
    /\ nsteps' = nsteps + 1
    /\ targeting_strategy.type = "waypoint"
    /\ LET call == calculate_total_route_distance(targeting_strategy)
       IN  /\ targeting_strategy' = call.strategy
           /\ last_call' = <<Called("calculate_total_route_distance", 0, << >>,
                                    call.result)>>
    /\ UNCHANGED editFrame

EditNext ==
    \/ ConstructLinear
    \/ ConstructCircular
    \/ ConstructWaypoint
    \/ AddWaypoint
    \/ RemoveWaypoint
    \/ CalculateTotalRouteDistance
    \/ NextPosition

EditSpec == EditInit /\ [][EditNext]_vars

(* ---------------- a route edited under a running worker ---------------- *)
\* the client thread that edits the route of the installed strategy
Editor == MaxCalls + 1

\* the indices remove_waypoint is called with
RaceIndices == {0, 1, 2}

\* serve(blocking=False) has returned on a simulator whose receiver has a fix,
\* after set_targeting(WaypointTargeting(...)) with three waypoints in Manual
\* mode at 108 km/h: a tick of one second covers the 30 m of a leg
RaceInit ==
    /\ Constructed
    /\ Serving
    /\ \E loop \in BOOLEAN :
         targeting_strategy =
             WaypointTargeting(<<Meridian(0), Meridian(30), Meridian(60)>>, 108, loop, 5)
    /\ date_time = 0
    /\ has_rtc = TRUE
    /\ num_sats = 4
    /\ has_fix = TRUE
    /\ latlon = Meridian(0)
    /\ heading = 0
    /\ kph = 0
    /\ glonass = << >>
    /\ static = FALSE
    /\ heading_variation = 0
    /\ interval = 2
    /\ step = 1

\* what no step of get_next_position writes
gnpFrame ==
    <<cfgVars, drained, kbatches, nsteps, targeting_log, calls, run, stream_lock,
      worker, sentence_stream, log_file_handle, auto_log_file, has_rtc, num_sats,
      has_fix, glonass, sentences, wi, wts, ctlVars, clientVars, ticks, appended,
      delivered, sink, log_failed, flag_cleared>>

\* what no step of remove_waypoint writes
removeFrame ==
    <<cfgVars, sim_time, drained, kbatches, last_call, targeting_log, calls, run,
      lock, stream_lock, worker, sentence_stream, log_file_handle, auto_log_file,
      gnssVars, workerVars, ctlVars, kstart, know, kdur, histVars>>

\* get_next_position returns `next`: the receiver takes the position, heading
\* and speed (lines 147-150; heading_variation is 0), __step returns and the
\* with block of line 198 releases the lock
GnpReturn(w, next) ==
    /\ targeting_strategy' = next.strategy
    /\ latlon' = next.latlon
    /\ heading' = next.heading
    /\ kph' = next.kph
    /\ lock' = NoThread
    /\ wpc' = [wpc EXCEPT ![w] = "w_while"]
    /\ last_event' = [last_event EXCEPT ![w] = "step"]
    /\ last_call' = <<Called("get_next_position", step, << >>, "returned")>>

\* self.waypoints[self._current_waypoint_index] raises IndexError, which
\* nothing catches: it ends get_next_position, __step, the with block (the
\* lock is released) and __action: the thread is dead
GnpIndexError(w) ==
    /\ lock' = NoThread
    /\ wpc' = [wpc EXCEPT ![w] = "crashed"]
    /\ last_call' = <<Called("get_next_position", step, << >>, "IndexError")>>
    /\ UNCHANGED <<targeting_strategy, latlon, heading, kph, last_event>>

\* get_next_position goes on to `pc`, nothing returned yet
GnpGoesOn(w, s, pc) ==
    /\ targeting_strategy' = s
    /\ wpc' = [wpc EXCEPT ![w] = pc]
    /\ UNCHANGED <<lock, latlon, heading, kph, last_event, last_call>>

\* lines 202, 117-136 and 625-635: __step(self.step) under the lock: the
\* receiver's clock advances, then get_next_position begins: an inactive or
\* completed route returns the inputs; an index past the end wraps (loop) or
\* completes the route
GnpCheck(w) ==
    /\ wpc[w] = "w_step"
    /\ targeting_strategy.type = "waypoint"
    /\ date_time' = AdvanceDateTime(Gps, step)
    /\ sim_time' = sim_time + step
    /\ LET s == targeting_strategy
       IN  IF ~s.is_active \/ s.completed
           THEN GnpReturn(w, Returned(s, latlon, heading, 0))
           ELSE IF s.current_waypoint_index >= Len(s.waypoints) /\ ~s.loop
           THEN GnpReturn(w, Returned([s EXCEPT !.completed = TRUE],
                                      latlon, heading, 0))
           ELSE GnpGoesOn(w, WaypointWrapped(s), "gnp_read")
    /\ UNCHANGED gnpFrame

\* lines 637-646: target = self.waypoints[self._current_waypoint_index] and
\* the arrival test; short of the waypoint the rest of the call (lines
\* 667-815), which in Manual mode reads neither the list nor the index again
GnpRead(w) ==
    /\ wpc[w] = "gnp_read"
    /\ LET s == targeting_strategy
       IN  IF s.current_waypoint_index >= Len(s.waypoints)
           THEN GnpIndexError(w)
           ELSE IF HasArrived(calculate_distance_km(
                                  latlon, s.waypoints[s.current_waypoint_index + 1]),
                              s.arrival_threshold_meters)
           THEN GnpGoesOn(w, s, "gnp_arrived")
           ELSE GnpReturn(w, WaypointTowards(WaypointSpeed(s, step), latlon,
                                             s.waypoints[s.current_waypoint_index + 1],
                                             step))
    /\ UNCHANGED <<date_time, sim_time, gnpFrame>>

\* line 648: self._current_waypoint_index += 1
GnpAdvance(w) ==
    /\ wpc[w] = "gnp_arrived"
    /\ GnpGoesOn(w, [targeting_strategy EXCEPT !.current_waypoint_index = @ + 1],
                 "gnp_end")
    /\ UNCHANGED <<date_time, sim_time, gnpFrame>>

\* lines 651-658: past the last waypoint a looping route begins its next lap
\* and an open one is completed and returns the inputs
GnpEnd(w) ==
    /\ wpc[w] = "gnp_end"
    /\ LET s == targeting_strategy
       IN  IF s.current_waypoint_index >= Len(s.waypoints)
           THEN IF s.loop
                THEN GnpGoesOn(w, [s EXCEPT !.current_waypoint_index = 0,
                                            !.laps_completed = @ + 1],
                               "gnp_first")
                ELSE GnpReturn(w, Returned([s EXCEPT !.completed = TRUE],
                                           latlon, heading, 0))
           ELSE GnpGoesOn(w, s, "gnp_next")
    /\ UNCHANGED <<date_time, sim_time, gnpFrame>>

\* line 655: target = self.waypoints[0], then lines 663-815
GnpFirst(w) ==
    /\ wpc[w] = "gnp_first"
    /\ LET s == targeting_strategy
       IN  GnpReturn(w, WaypointTowards(WaypointSpeed(s, step), latlon,
                                        s.waypoints[1], step))
    /\ UNCHANGED <<date_time, sim_time, gnpFrame>>

\* line 660: target = self.waypoints[self._current_waypoint_index], then lines
\* 663-815
GnpNext(w) ==
    /\ wpc[w] = "gnp_next"
    /\ LET s == targeting_strategy
       IN  IF s.current_waypoint_index >= Len(s.waypoints)
           THEN GnpIndexError(w)
           ELSE GnpReturn(w, WaypointTowards(WaypointSpeed(s, step), latlon,
                                             s.waypoints[s.current_waypoint_index + 1],
                                             step))
    /\ UNCHANGED <<date_time, sim_time, gnpFrame>>

\* remove_waypoint(index), line 898, called without the lock: the test of the
\* index and of the length; when it fails the call returns
RemoveGuard(c) ==
    /\ kpc[c] = "idle"
    /\ nsteps < MaxSteps
    /\ nsteps' = nsteps + 1
    /\ targeting_strategy.type = "waypoint"
    /\ \E index \in RaceIndices :
         /\ ki' = [ki EXCEPT ![c] = index]
         /\ kpc' = [kpc EXCEPT ![c] =
                      IF /\ 0 <= index
                         /\ index < Len(targeting_strategy.waypoints)
                         /\ Len(targeting_strategy.waypoints) > 2
                      THEN "rw_pop" ELSE "idle"]
    /\ UNCHANGED <<targeting_strategy, removeFrame>>

\* line 899: self.waypoints.pop(index)
RemovePop(c) ==
    /\ kpc[c] = "rw_pop"
    /\ targeting_strategy' = [targeting_strategy EXCEPT !.waypoints = Pop(@, ki[c])]
    /\ kpc' = [kpc EXCEPT ![c] = "rw_adjust"]
    /\ UNCHANGED <<ki, nsteps, removeFrame>>

\* lines 901-902: the index is adjusted, and the call returns
RemoveAdjust(c) ==
    /\ kpc[c] = "rw_adjust"
    /\ targeting_strategy' =
           [targeting_strategy EXCEPT !.current_waypoint_index =
                                          IF @ >= ki[c] THEN Max(0, @ - 1) ELSE @]
    /\ kpc' = [kpc EXCEPT ![c] = "idle"]
    /\ UNCHANGED <<ki, nsteps, removeFrame>>

\* the worker's loop with __step taken line by line through get_next_position,
\* the editor calling remove_waypoint() again and again, and kill()
RaceNext ==
    \/ \E w \in Workers :
          \/ WorkerSet(w)
          \/ WorkerWhile(w)
          \/ WorkerIfEmit(w)
          \/ WorkerEmit(w)
          \/ WorkerStreamLock(w)
          \/ WorkerAdd(w)
          \/ WorkerIfWrite(w)
          \/ WorkerWriteCheck(w)
          \/ WorkerWrite(w)
          \/ WorkerSleep(w)
          \/ WorkerIfStep(w)
          \/ WorkerStepLock(w)
          \/ GnpCheck(w)
          \/ GnpRead(w)
          \/ GnpAdvance(w)
          \/ GnpEnd(w)
          \/ GnpFirst(w)
          \/ GnpNext(w)
    \/ RemoveGuard(Editor)
    \/ RemovePop(Editor)
    \/ RemoveAdjust(Editor)
    \/ CtlKill
    \/ CtlKillCheck
    \/ CtlKillClear

RaceSpec == RaceInit /\ [][RaceNext]_vars

(* ----------------------- a journey, tick after tick -------------------- *)
\* the strategies that travel to an end or around a loop: LinearTargeting with
\* stop_at_target and WaypointTargeting with loop=True in Manual mode, each
\* with a speed above 0
JourneyStrategies ==
    {LinearTargeting(Meridian(n), speed_kph, TRUE, arrival_threshold_meters) :
        n \in {5, 30}, speed_kph \in {18, 72}, arrival_threshold_meters \in {5, 10}}
    \cup {WaypointTargeting(waypoints, speed_kph, TRUE, 5) :
            waypoints \in {<<Meridian(0), Meridian(30)>>,
                           <<Meridian(0), Meridian(30), Meridian(45)>>},
            speed_kph \in {36, 72}}

\* a strategy just constructed and the receiver it will move
JourneyInit ==
    /\ CallerInit
    /\ targeting_strategy \in JourneyStrategies

\* what a tick and a reset of a journey leave alone. The calls are not counted
\* here (nsteps, sim_time): a journey is as long as it takes.
journeyFrame ==
    <<cfgVars, sim_time, nsteps, drained, kbatches, targeting_log, calls, run, lock,
      stream_lock, worker, sentence_stream, log_file_handle, auto_log_file,
      date_time, has_rtc, num_sats, has_fix, glonass, workerVars, ctlVars,
      clientVars, histVars>>

\* one tick of the driver for the receiver: get_next_position with the
\* receiver's position and heading, which the result replaces (lines 138-150 of
\* simulator.py). A looping route is followed for MaxLaps laps.
Tick ==
    /\ targeting_strategy.type = "waypoint" =>
            targeting_strategy.laps_completed < MaxLaps
    /\ \E duration_seconds \in Durations :
         /\ targeting_strategy' =
                GetNextPosition(targeting_strategy, latlon, heading,
                                duration_seconds).strategy
         /\ latlon' = GetNextPosition(targeting_strategy, latlon, heading,
                                      duration_seconds).latlon
         /\ heading' = GetNextPosition(targeting_strategy, latlon, heading,
                                       duration_seconds).heading
         /\ kph' = GetNextPosition(targeting_strategy, latlon, heading,
                                   duration_seconds).kph
         /\ last_call' = <<Called("get_next_position", duration_seconds,
                                   << >>, << >>)>>
    /\ UNCHANGED journeyFrame

\* strategy.reset() of a LinearTargeting
ResetLinear ==
    /\ targeting_strategy.type = "linear"
    /\ targeting_strategy' = LinearReset(targeting_strategy)
    /\ last_call' = <<Called("reset", 0, << >>, << >>)>>
    /\ UNCHANGED <<latlon, heading, kph>>
    /\ UNCHANGED journeyFrame

JourneyNext == Tick \/ ResetLinear

\* The driver goes on ticking: its worker calls __step in every iteration of
\* its loop. Nobody is obliged to call reset().
JourneySpec == JourneyInit /\ [][JourneyNext]_vars /\ WF_vars(Tick)

(* ------------------------------ observations --------------------------- *)
\* the entries of a history that belong to the batch stamped ts
OfBatch(history, ts) == SelectSeq(history, LAMBDA e : e[1] = ts)
BatchStamps(history) == {history[n][1] : n \in 1..Len(history)}
\* the worker is in the loop of lines 188-191 that writes its batch
Writing(w) == wpc[w] \in {"w_write_chk", "w_write"}
\* a step in which the worker generates a batch / calls __step
EmitsNow(w) == wpc[w] = "w_lock" /\ wpc'[w] # "w_lock"
StepsNow(w) == wpc[w] = "w_step" /\ wpc'[w] # "w_step"
\* a step in which the worker begins an iteration of its loop
BeginsTick(w) == wpc[w] = "w_while" /\ wpc'[w] = "w_if_emit"
\* kill() has returned to its caller and nothing was called since
KillReturned == cpc = "idle" /\ cop = "kill"

(* -------------------------------- C1 ----------------------------------- *)
\* a step in which a thread takes the state lock finds it without the stream lock
LockOrderStep ==
    \A t \in Threads : (lock' = t /\ lock # t) => stream_lock # t
\* the holder of the stream lock can go on to release it: a worker holds the
\* state lock already, a client needs none
StreamHolderRuns ==
    /\ \A w \in Workers : stream_lock = w => lock = w /\ ENABLED WorkerAdd(w)
    /\ \A c \in Clients : stream_lock = c => lock # c /\ ENABLED GnsDrain(c)
\* C1: the state lock is never acquired by a thread that holds the stream
\* lock, and the holder of the stream lock never waits for anything: it can
\* always go on to release it. So the two locks cannot deadlock.
C1_LockOrder == [][LockOrderStep]_vars /\ []StreamHolderRuns
\* a worker holds both locks, taken in the order state, stream, while a client
\* is inside another operation
C1_Witness ==
    \E w \in Workers, c \in Clients :
        lock = w /\ stream_lock = w /\ kpc[c] # "idle"

(* -------------------------------- C2 ----------------------------------- *)
\* C2 (as claimed): whoever is about to write a sentence to the sink does not
\* hold the state lock.
C2_NoSinkWriteUnderLock ==
    /\ \A w \in Workers : wpc[w] = "w_write" => lock # w
    /\ \A c \in Clients :
         (kpc[c] \in {"ol_write", "g_yield"} /\ ki[c] <= Len(Output))
            => lock # c

(* -------------------------------- C3 ----------------------------------- *)
\* C3 (as claimed): no worker thread is ended by an error; a sink write that
\* raises leaves the worker alive.
C3_SinkErrorKeepsWorkerAlive == \A w \in Workers : wpc[w] # "crashed"

(* -------------------------------- C4 ----------------------------------- *)
\* C4: at most one worker thread is alive at any instant.
C4_AtMostOneWorker == Cardinality({w \in Workers : IsAlive(w)}) <= 1
\* serve() was called while the previous worker was alive and had not yet set
\* the run flag; that worker has ended and the next one runs
C4_Witness ==
    \E w1, w2 \in Workers :
        /\ "before_set" \in flag_cleared[w1]
        /\ wpc[w1] = "dead"
        /\ IsAlive(w2)

(* -------------------------------- C5 ----------------------------------- *)
\* C5 (as claimed): once kill() has cleared the run flag under a live worker,
\* that worker begins no further iteration of its loop.
C5_NoTickOnceCleared ==
    [][\A w \in Workers : flag_cleared[w] # {} => ~BeginsTick(w)]_vars
\* C5 (amended): kill() returns, and when it has returned no worker is alive
\* and nothing is appended to the stream, written to the sink or advanced by a
\* worker; a worker begins no further iteration once kill() has cleared the
\* run flag after the worker's own run.set() of line 174.
C5_KillStopsWorker ==
    /\ [](KillReturned => \A w \in Workers : ~IsAlive(w))
    /\ [][KillReturned =>
            appended' = appended /\ sink' = sink /\ last_event' = last_event]_vars
    /\ [][\A w \in Workers : "in_loop" \in flag_cleared[w] => ~BeginsTick(w)]_vars
    /\ ((cpc = "kill_check" /\ cop = "kill") ~> KillReturned)
\* kill() was called while the worker was inside its loop, after a batch went
\* out; it has returned and the worker has ended
C5_Witness ==
    /\ KillReturned
    /\ \E w \in Workers :
         /\ wpc[w] = "dead"
         /\ "in_loop" \in flag_cleared[w]
         /\ Len(OfBatch(sink, wts[w])) > 0

C7_StreamBounded == Len(sentence_stream) < MaxTicks * BatchLen

(* -------------------------------- C8 ----------------------------------- *)
\* C8 (as claimed): the sink holds of every batch all sentences or none,
\* unless a worker is just writing the batch (or was ended by an error while
\* writing it, which is the matter of C3).
C8_BatchAllOrNone ==
    \A ts \in 1..MaxTicks :
        \/ \E w \in Workers : wts[w] = ts /\ (Writing(w) \/ wpc[w] = "crashed")
        \/ Len(OfBatch(sink, ts)) \in {0, BatchLen}
\* C8 (amended): the sink holds the batches in the order of their ticks and of
\* every batch a prefix, in the order of the batch; a batch is cut short only
\* as the last batch its worker writes: the worker has ended, or the run flag
\* is cleared under it.
C8_BatchPrefixes ==
    /\ \A m, n \in 1..Len(sink) : m < n => sink[m][1] <= sink[n][1]
    /\ \A ts \in BatchStamps(sink) :
         /\ \A i \in 1..Len(OfBatch(sink, ts)) :
              /\ OfBatch(sink, ts)[i][2][2] = i
              /\ OfBatch(sink, ts)[i][2][1] = OfBatch(sink, ts)[1][2][1]
         /\ Len(OfBatch(sink, ts)) < BatchLen =>
              \E w \in Workers :
                  /\ wts[w] = ts
                  /\ Writing(w) \/ ~IsAlive(w) \/ ~run
\* kill() came while a batch was being written: the sink holds a part of it
\* and the worker has ended
C8_Witness ==
    \E w \in Workers :
        /\ wpc[w] = "dead"
        /\ Len(OfBatch(sink, wts[w])) \in 1..(BatchLen - 1)

(* -------------------------------- C9 ----------------------------------- *)
C9_AlternationStep ==
    \A w \in Workers :
        /\ EmitsNow(w) => last_event[w] \in {"none", "step"}
        /\ StepsNow(w) => last_event[w] = "emit"
\* C9: a worker generates a batch only as its first action or after a call of
\* __step, and calls __step only after generating a batch: batches and
\* advances alternate, a batch first.
C9_EmitStepAlternate == [][C9_AlternationStep]_vars
\* a worker generated a batch, advanced the receiver and generated the next
\* batch from the advanced state
C9_Witness ==
    \E w \in Workers :
        /\ last_event[w] = "emit"
        /\ Len(OfBatch(appended, 1)) = BatchLen
        /\ Len(OfBatch(appended, 2)) = BatchLen
        /\ appended[1][2][1] + 1 = appended[Len(appended)][2][1]

(* -------------------------------- C10 ---------------------------------- *)
\* a step in which a log write fails appends the pair and goes on to the next
\* sentence, the worker still holding both locks
LogFailureStep(w) ==
    (log_failed'[w] /\ ~log_failed[w]) =>
        /\ wpc'[w] = "w_add"
        /\ wi'[w] = wi[w] + 1
        /\ lock' = w /\ stream_lock' = w
        /\ appended' = Append(appended, <<wts[w], sentences[w][wi[w]]>>)
\* the pairs of the worker's batch that are appended: during the loop all
\* before the running index, after it the whole batch
BatchAppended(w) ==
    log_failed[w] =>
        Len(OfBatch(appended, wts[w])) =
            IF wpc[w] = "w_add" THEN wi[w] - 1 ELSE Len(sentences[w])
\* C10: a log write that fails leaves the worker in the loop of
\* _add_to_stream, which goes on with the next sentence; so when a log write
\* failed while a worker's batch was appended, the failing sentence and all
\* the others of the batch are appended to the stream all the same.
C10_LogFailureKeepsStream ==
    /\ [][\A w \in Workers : LogFailureStep(w)]_vars
    /\ [](\A w \in Workers : BatchAppended(w))
\* after a failed log write the batch went to the stream and to the sink, the
\* receiver was advanced and the worker is about to generate the next batch
C10_Witness ==
    \E w \in Workers :
        /\ log_failed[w]
        /\ wpc[w] = "w_lock"
        /\ last_event[w] = "step"
        /\ Len(OfBatch(appended, wts[w])) = BatchLen
        /\ Len(OfBatch(sink, wts[w])) = BatchLen

(* -------------------------------- C11 ---------------------------------- *)
\* the seconds a call of __step was made with
StepDuration == sim_time' - sim_time
\* the duration the worker passes to __step: the step, or the measured time
\* when step == interval, which is the interval or more
WorkerDuration ==
    IF step = interval THEN StepDuration >= interval ELSE StepDuration = step
\* C11 (as claimed): at every tick of a worker every receiver's date_time is
\* advanced, by the step or the measured time, to a strictly greater value.
C11_DateTimeStrictlyIncreases ==
    [][(\E w \in Workers : StepsNow(w)) =>
         /\ WorkerDuration
         /\ date_time' = date_time + StepDuration
         /\ date_time' > date_time
         /\ glonass # << >> =>
              /\ glonass'[1].date_time = glonass[1].date_time + StepDuration
              /\ glonass'[1].date_time > glonass[1].date_time]_vars
\* whether __step advances the receiver's clock
ClockRuns(gnss) ==
    /\ gnss.num_sats > 0 \/ gnss.has_rtc
    /\ ~(static /\ targeting_strategy = NoStrategy)
\* a receiver's date_time before and after a tick
ClockAdvanced(gnss, after) ==
    /\ after >= gnss.date_time
    /\ ClockRuns(gnss) => after = gnss.date_time + StepDuration /\ after > gnss.date_time
    /\ ~ClockRuns(gnss) => after = gnss.date_time
\* C11 (amended): at a tick of a worker no receiver's date_time decreases; a
\* receiver with satellites in view or an RTC is advanced by the step, or by
\* the measured time (the interval or more) when step == interval, to a
\* strictly greater value, unless the simulator is static and has no
\* strategy; any other receiver keeps its date_time.
C11_DateTimeAdvances ==
    [][(\E w \in Workers : StepsNow(w)) =>
         /\ WorkerDuration
         /\ ClockAdvanced(Gps, date_time')
         /\ glonass # << >> => ClockAdvanced(glonass[1], glonass'[1].date_time)]_vars
\* a worker has advanced the primary receiver, which has satellites, and left
\* the secondary one, which has neither satellites nor an RTC, where it was
C11_Witness ==
    /\ \E w \in Workers : last_event[w] = "step"
    /\ glonass # << >>
    /\ date_time > 0
    /\ glonass[1].date_time = 0

(* -------------------------------- C12 ---------------------------------- *)
\* ceil(a / b) for whole a >= 0, b > 0
Ceil(a, b) == (a + b - 1) \div b
\* C12 (as claimed): generate(duration, sink) ends after ceil(duration / step)
\* batches, whatever the receiver's state: its loop begins no more iterations
\* than that.
C12_GenerateBatches ==
    \A c \in Clients : kbatches[c] <= Ceil(kdur[c], step)

(* -------------------------------- C13 ---------------------------------- *)
\* C13: a get_new_sentences() call that follows another with nothing appended
\* in between returns an empty list, and every call leaves the buffer empty.
C13_SecondDrainEmpty ==
    /\ [](\A n \in 2..Len(drained) :
            drained[n].appended = drained[n - 1].appended => drained[n].returned = 0)
    /\ [][Len(drained') > Len(drained) => sentence_stream' = << >>]_vars
\* a drain returned pairs and the next one, with nothing appended in between,
\* returned none
C13_Witness ==
    /\ Len(drained) = 2
    /\ drained[1].returned > 0
    /\ drained[2].returned = 0
    /\ drained[2].appended = drained[1].appended

(* -------------------------------- C14 ---------------------------------- *)
\* C14: set_targeting() and clear_targeting() change no receiver, so after
\* set_targeting(S); clear_targeting() with no tick in between the receivers
\* are as they were; and the strategy clear_targeting() installs is an active
\* StaticTargeting.
C14_TargetingFrame ==
    /\ [][Len(targeting_log') > Len(targeting_log) =>
            Gps' = Gps /\ glonass' = glonass /\ sim_time' = sim_time]_vars
    /\ [](\A n \in 1..Len(targeting_log) :
            /\ (n = Len(targeting_log) /\ targeting_log[n].op = "clear") =>
                 /\ targeting_strategy.type = "static"
                 /\ targeting_strategy.is_active
            /\ (n > 1 /\ targeting_log[n].op = "clear"
                      /\ targeting_log[n - 1].op = "set"
                      /\ targeting_log[n].sim_time = targeting_log[n - 1].sim_time) =>
                 /\ targeting_log[n].gps = targeting_log[n - 1].gps
                 /\ targeting_log[n].glonass = targeting_log[n - 1].glonass)
\* set_targeting(S) and then clear_targeting() were called, with no tick in
\* between
C14_Witness ==
    /\ Len(targeting_log) = 2
    /\ targeting_log[1].op = "set"
    /\ targeting_log[2].op = "clear"
    /\ targeting_log[2].sim_time = targeting_log[1].sim_time
    /\ targeting_strategy = StaticTargeting

(* -------------------------------- C15 ---------------------------------- *)
\* C15: get_next_position of an inactive strategy returns the input position
\* and heading with speed 0 and leaves the strategy's state as it was.
C15_InactiveIsIdentity ==
    \A n \in 1..Len(last_call) :
        ~last_call[n].strategy.is_active =>
            /\ latlon = last_call[n].latlon
            /\ heading = last_call[n].heading
            /\ kph = 0
            /\ targeting_strategy = last_call[n].strategy
\* a circular strategy that has turned was set inactive and then called; so
\* was a waypoint strategy on its way
C15_Witness ==
    /\ last_call # << >>
    /\ ~targeting_strategy.is_active
    /\ \/ /\ targeting_strategy.type = "circular"
          /\ targeting_strategy.total_angle_traveled > 0
          /\ latlon # targeting_strategy.center
       \/ /\ targeting_strategy.type = "linear"
          /\ targeting_strategy.total_distance_traveled > 0

(* -------------------------------- C16 ---------------------------------- *)
\* C16 (as claimed): a tick of an active LinearTargeting with stop_at_target
\* whose travel distance is at least the distance to the target (the target
\* being farther than the arrival threshold) ends at the target with
\* is_complete() true.
C16_CompletesInOneTick ==
    \A n \in 1..Len(last_call) :
        LET before == last_call[n].strategy
            remaining == calculate_distance_km(last_call[n].latlon, before.target)
        IN  (/\ before.type = "linear"
             /\ before.is_active
             /\ before.stop_at_target
             /\ remaining > before.arrival_threshold_meters
             /\ DistanceThisStep(before.speed_kph, last_call[n].duration_seconds)
                    >= remaining)
            => /\ latlon = before.target
               /\ LinearIsComplete(targeting_strategy)

(* -------------------------------- C17 ---------------------------------- *)
\* C17: a tick of an active LinearTargeting with stop_at_target that begins
\* within the arrival threshold of the target leaves is_complete() true,
\* returns the input position and heading with speed 0 and adds no distance.
C17_StartAtTarget ==
    \A n \in 1..Len(last_call) :
        LET before == last_call[n].strategy
        IN  (/\ before.type = "linear"
             /\ before.is_active
             /\ before.stop_at_target
             /\ calculate_distance_km(last_call[n].latlon, before.target)
                    <= before.arrival_threshold_meters)
            => /\ LinearIsComplete(targeting_strategy)
               /\ latlon = last_call[n].latlon
               /\ heading = last_call[n].heading
               /\ kph = 0
               /\ targeting_strategy.total_distance_traveled
                      = before.total_distance_traveled
\* the first tick began exactly at the arrival threshold from the target
C17_Witness ==
    /\ nsteps = 1
    /\ last_call # << >>
    /\ targeting_strategy.type = "linear"
    /\ targeting_strategy.stop_at_target
    /\ targeting_strategy.arrived
    /\ calculate_distance_km(latlon, targeting_strategy.target)
           = targeting_strategy.arrival_threshold_meters
    /\ targeting_strategy.total_distance_traveled = 0

(* -------------------------------- C18 ---------------------------------- *)
\* the angle a circular strategy has after turning for `seconds`
AngleAfter(s, seconds) ==
    (s.start_angle + (IF s.clockwise THEN 1 ELSE -1) * s.angular_velocity * seconds) % 360
\* C18: after one or more active ticks of a CircularTargeting, current_angle
\* is in [0, 360) and is the start angle plus (clockwise) or minus the angle
\* turned, modulo 360; laps_completed is the whole number of turns; the
\* heading a tick returns is the tangent; is_complete() is false.
C18_CircularAngle ==
    (targeting_strategy.type = "circular" /\ sim_time > 0) =>
        /\ targeting_strategy.current_angle \in 0..359
        /\ targeting_strategy.current_angle = AngleAfter(targeting_strategy, sim_time)
        /\ targeting_strategy.total_angle_traveled
               = targeting_strategy.angular_velocity * sim_time
        /\ targeting_strategy.laps_completed
               = targeting_strategy.total_angle_traveled \div 360
        /\ ~IsComplete(targeting_strategy)
        /\ \A n \in 1..Len(last_call) :
             last_call[n].strategy.is_active =>
                heading = IF targeting_strategy.clockwise
                          THEN (targeting_strategy.current_angle + 90) % 360
                          ELSE (targeting_strategy.current_angle - 90) % 360
\* a counter-clockwise strategy that began beyond 360 degrees has completed
\* laps and returned a heading below its angle
C18_Witness ==
    /\ targeting_strategy.type = "circular"
    /\ ~targeting_strategy.clockwise
    /\ targeting_strategy.start_angle >= 360
    /\ targeting_strategy.laps_completed >= 2
    /\ targeting_strategy.current_angle < 90
    /\ last_call # << >>
    /\ heading > 270

(* -------------------------------- C19 ---------------------------------- *)
\* C19 (as claimed): with a CircularTargeting installed and every receiver
\* having a fix, the strategy's angle after driver ticks of T seconds in all
\* is the start angle turned by T seconds: one advance per tick, with one
\* receiver or two.
C19_OneAdvancePerTick ==
    (/\ targeting_strategy.type = "circular"
     /\ has_fix
     /\ glonass # << >> => glonass[1].has_fix)
    => targeting_strategy.current_angle = AngleAfter(targeting_strategy, sim_time)

(* -------------------------------- C20 ---------------------------------- *)
\* C20: a tick of an active looping WaypointTargeting leaves current_index in
\* [0, N), either where it was or one further modulo N, and adds one lap
\* exactly when the index went from N - 1 to 0.
C20_WaypointIndexCycles ==
    \A n \in 1..Len(last_call) :
        LET before == last_call[n].strategy
            after == targeting_strategy
            N == Len(before.waypoints)
        IN  (before.type = "waypoint" /\ before.loop /\ before.is_active) =>
              /\ after.current_waypoint_index \in 0..(N - 1)
              /\ after.current_waypoint_index
                    \in {before.current_waypoint_index,
                         (before.current_waypoint_index + 1) % N}
              /\ after.laps_completed = before.laps_completed +
                    (IF before.current_waypoint_index = N - 1
                        /\ after.current_waypoint_index = 0 THEN 1 ELSE 0)
\* a route of 2 waypoints: the index went 0, 1, 0, 1 and one lap is counted
C20_Witness ==
    /\ last_call # << >>
    /\ targeting_strategy.type = "waypoint"
    /\ targeting_strategy.loop
    /\ Len(targeting_strategy.waypoints) = 2
    /\ targeting_strategy.current_waypoint_index = 1
    /\ targeting_strategy.laps_completed = 1
    /\ last_call[1].strategy.current_waypoint_index = 0
    /\ last_call[1].strategy.laps_completed = 1

(* -------------------------------- C21 ---------------------------------- *)
\* what is left of an open route for a vehicle at pos: 0 once completed,
\* otherwise 1, one per waypoint not yet reached, and the metres to the
\* current waypoint and from there along the legs to the last one
RouteLeft(s, pos) ==
    LET N == Len(s.waypoints)
        index == s.current_waypoint_index
    IN  IF s.completed THEN 0
        ELSE IF index >= N THEN 1
        ELSE 1 + (N - index)
               + calculate_distance_km(pos, s.waypoints[index + 1])
               + (LegsUpTo(s.waypoints, N) - LegsUpTo(s.waypoints, index + 1))
\* C21: on an open route (loop = false) with a speed above 0, every tick
\* before completion brings the vehicle nearer the end of the route, which is
\* therefore reached and the strategy marked completed after finitely many
\* ticks, with the last waypoint passed; from then on a tick returns the input
\* position and heading with speed 0 and changes nothing of the strategy, and
\* is_complete() stays true, until reset().
C21_OpenRouteCompletes ==
    \A n \in 1..Len(last_call) :
        LET before == last_call[n].strategy
            after == targeting_strategy
        IN  (/\ last_call[n].op = "get_next_position"
             /\ before.type = "waypoint"
             /\ ~before.loop
             /\ before.is_active)
            => /\ before.completed =>
                    /\ after = before
                    /\ IsComplete(after)
                    /\ latlon = last_call[n].latlon
                    /\ heading = last_call[n].heading
                    /\ kph = 0
               /\ ~before.completed =>
                    RouteLeft(after, latlon) < RouteLeft(before, last_call[n].latlon)
               /\ after.completed =>
                    after.current_waypoint_index >= Len(after.waypoints)
\* a tick of a completed route, whose vehicle has travelled to the last
\* waypoint
C21_Witness ==
    /\ last_call # << >>
    /\ last_call[1].op = "get_next_position"
    /\ last_call[1].strategy.completed
    /\ targeting_strategy.completed
    /\ ~targeting_strategy.loop
    /\ latlon = targeting_strategy.waypoints[Len(targeting_strategy.waypoints)]
    /\ targeting_strategy.total_distance_traveled > 0

(* -------------------------------- C22 ---------------------------------- *)
\* C22 (as claimed): a looping route of N >= 2 waypoints in Manual mode, begun
\* at the first waypoint: when the vehicle is back at the first waypoint after
\* k laps, laps_completed is k and the distance travelled is k times
\* calculate_total_route_distance(), to within arrival_threshold * N per lap.
C22_LapDistance ==
    LET s == targeting_strategy
        N == Len(s.waypoints)
        route == calculate_total_route_distance(s).result
        travelled == s.total_distance_traveled
        expected == s.laps_completed * route
    IN  (/\ s.type = "waypoint"
         /\ s.mode = "manual"
         /\ s.loop
         /\ targeting_log = << >>
         /\ latlon = s.waypoints[1]
         /\ s.current_waypoint_index = 0
         /\ s.laps_completed >= 1)
        => /\ travelled - expected <= s.laps_completed * s.arrival_threshold_meters * N
           /\ expected - travelled <= s.laps_completed * s.arrival_threshold_meters * N

(* -------------------------------- C23 ---------------------------------- *)
\* C23 (as claimed): whatever add_waypoint, remove_waypoint and
\* calculate_total_route_distance calls came before, a
\* calculate_total_route_distance() call returns the route distance of the
\* waypoint list as it is at the call.
C23_RouteDistanceCurrent ==
    \A n \in 1..Len(last_call) :
        last_call[n].op = "calculate_total_route_distance" =>
            last_call[n].result = RouteDistance(targeting_strategy)

(* -------------------------------- C24 ---------------------------------- *)
\* C24: a remove_waypoint(index) that would leave fewer than 2 waypoints, or
\* whose index is out of range, changes neither the waypoint list nor
\* current_index (nor anything else of the strategy); and a waypoint strategy
\* has 2 waypoints or more after any add_waypoint and remove_waypoint calls.
C24_RemoveRefused ==
    /\ targeting_strategy.type = "waypoint" => Len(targeting_strategy.waypoints) >= 2
    /\ \A n \in 1..Len(last_call) :
         LET before == last_call[n].strategy
             index == last_call[n].arg
         IN  (/\ last_call[n].op = "remove_waypoint"
              /\ \/ index < 0
                 \/ index >= Len(before.waypoints)
                 \/ Len(before.waypoints) - 1 < 2)
             => /\ targeting_strategy.waypoints = before.waypoints
                /\ targeting_strategy.current_waypoint_index
                       = before.current_waypoint_index
                /\ targeting_strategy = before
\* the removal of the second of 2 waypoints, the vehicle being on its way to
\* it, was refused; the route had been longer before
C24_Witness ==
    /\ last_call # << >>
    /\ last_call[1].op = "remove_waypoint"
    /\ last_call[1].arg = 1
    /\ Len(last_call[1].strategy.waypoints) = 2
    /\ targeting_strategy.current_waypoint_index = 1
    /\ targeting_strategy.waypoints = last_call[1].strategy.waypoints
    /\ Meridian(90) \in {targeting_strategy.waypoints[k] : k \in 1..2}

(* -------------------------------- C28 ---------------------------------- *)
\* C28: WaypointTargeting(...) with fewer than 2 waypoints, or in Dynamic mode
\* with a profile name that is not in VEHICLE_PROFILES, raises ValueError and
\* gives its caller no strategy.
C28_InvalidRouteRejected ==
    \A n \in 1..Len(last_call) :
        LET a == last_call[n].arg
        IN  (/\ last_call[n].op = "WaypointTargeting"
             /\ \/ Len(a.waypoints) < 2
                \/ a.mode = "dynamic" /\ a.speed_profile \notin {"F1", "Go-Kart", "Bicycle"})
            => /\ last_call[n].result = "ValueError"
               /\ targeting_strategy = NoStrategy
\* a route of 2 waypoints with an unknown profile was refused
C28_Witness ==
    /\ last_call # << >>
    /\ last_call[1].op = "WaypointTargeting"
    /\ last_call[1].result = "ValueError"
    /\ Len(last_call[1].arg.waypoints) >= 2
    /\ last_call[1].arg.speed_profile = "Truck"
    /\ targeting_strategy = NoStrategy

(* -------------------------------- C29 ---------------------------------- *)
\* C29 (as claimed): no strategy exists with a negative speed (Linear,
\* Waypoint in Manual mode) or a radius of 0 or less (Circular), their
\* constructors refusing such arguments; and no speed below 0 is emitted.
C29_OutOfRangeRejected ==
    /\ targeting_strategy.type = "linear" => targeting_strategy.speed_kph >= 0
    /\ targeting_strategy.type = "circular" => targeting_strategy.radius_meters > 0
    /\ (targeting_strategy.type = "waypoint" /\ targeting_strategy.mode = "manual")
         => targeting_strategy.speed_kph >= 0
    /\ kph >= 0

(* -------------------------------- C25 ---------------------------------- *)
\* current_speed is within the limits of the profile
InLimits(s) ==
    /\ s.min_corner_speed_kph <= s.current_speed_kph
    /\ s.current_speed_kph <= s.top_speed_kph
\* C25 (as claimed): in Dynamic mode current_speed is within
\* [min_corner_speed, top_speed] in every state of the strategy: after
\* construction, after every tick and after reset().
C25_SpeedAlwaysInLimits ==
    (targeting_strategy.type = "waypoint" /\ targeting_strategy.mode = "dynamic")
        => InLimits(targeting_strategy)
\* C25 (amended): in Dynamic mode current_speed is 0 after construction and
\* after reset(); every active tick of a strategy that is not completed
\* leaves it within [min_corner_speed, top_speed] and emits it; once within
\* the limits it stays within them until reset().
C25_SpeedInLimitsOnceMoving ==
    (targeting_strategy.type = "waypoint" /\ targeting_strategy.mode = "dynamic")
    => /\ targeting_strategy.current_speed_kph = 0 \/ InLimits(targeting_strategy)
       /\ last_call = << >> => targeting_strategy.current_speed_kph = 0
       /\ \A n \in 1..Len(last_call) :
            LET before == last_call[n].strategy
            IN  /\ last_call[n].op = "reset" =>
                     targeting_strategy.current_speed_kph = 0
                /\ (/\ last_call[n].op = "get_next_position"
                    /\ before.is_active
                    /\ ~before.completed)
                   => /\ InLimits(targeting_strategy)
                      /\ ~targeting_strategy.completed =>
                            kph = targeting_strategy.current_speed_kph
                /\ (last_call[n].op # "reset" /\ InLimits(before))
                   => InLimits(targeting_strategy)
\* the first tick of a vehicle at rest: its acceleration alone would leave it
\* below min_corner_speed, the speed it is given
C25_Witness ==
    /\ last_call # << >>
    /\ last_call[1].op = "get_next_position"
    /\ last_call[1].strategy.mode = "dynamic"
    /\ last_call[1].strategy.current_speed_kph = 0
    /\ last_call[1].strategy.acceleration_kph_s * last_call[1].duration_seconds
           < targeting_strategy.min_corner_speed_kph
    /\ targeting_strategy.current_speed_kph = targeting_strategy.min_corner_speed_kph

(* -------------------------------- C26 ---------------------------------- *)
\* the waypoints (positions in the list) at which the route turns: all of
\* them on a loop, all but the first and the last on an open route
Corners(s) ==
    IF s.loop THEN 1..Len(s.waypoints) ELSE 2..(Len(s.waypoints) - 1)
\* the turn angle at the waypoint in position k of the list
TurnAngleAt(s, k) ==
    LET N == Len(s.waypoints)
    IN  calculate_turn_angle(s.waypoints[((k - 2) % N) + 1], s.waypoints[k],
                             s.waypoints[(k % N) + 1])
\* C26 (as claimed): in Dynamic mode on a route whose every turn angle is 15
\* degrees or less, no tick decreases current_speed.
C26_SpeedNeverDecreases ==
    \A n \in 1..Len(last_call) :
        LET before == last_call[n].strategy
        IN  (/\ last_call[n].op = "get_next_position"
             /\ before.type = "waypoint"
             /\ before.mode = "dynamic"
             /\ \A k \in Corners(before) : TurnAngleAt(before, k) <= 15)
            => targeting_strategy.current_speed_kph >= before.current_speed_kph

(* -------------------------------- C27 ---------------------------------- *)
\* a is within 1 of b
Within1(a, b) == a - b <= 1 /\ b - a <= 1
\* C27 (as claimed): in Dynamic mode, at the tick in which a moving vehicle
\* arrives at a waypoint whose turn angle is 45 degrees or more, current_speed
\* is min_corner_speed to within 1 km/h: the speed the vehicle arrives with, or
\* at least the speed the tick leaves it with.
C27_ApexSpeed ==
    \A n \in 1..Len(last_call) :
        LET before == last_call[n].strategy
            after == targeting_strategy
        IN  (/\ last_call[n].op = "get_next_position"
             /\ before.type = "waypoint"
             /\ before.mode = "dynamic"
             /\ before.is_active
             /\ ~before.completed
             /\ before.total_distance_traveled > 0
             /\ after.current_waypoint_index # before.current_waypoint_index
             /\ (before.current_waypoint_index + 1) \in Corners(before)
             /\ TurnAngleAt(before, before.current_waypoint_index + 1) >= 45)
            => \/ Within1(before.current_speed_kph, before.min_corner_speed_kph)
               \/ Within1(after.current_speed_kph, before.min_corner_speed_kph)

(* -------------------------------- C30 ---------------------------------- *)
\* C30: in a tick of Dynamic mode the speed moves towards the apex speed of
\* the first look-ahead corner whose required braking distance from
\* current_speed is its cumulative distance or more, or towards top_speed when
\* there is no such corner; and when the tick decreases current_speed there
\* is such a corner, and the decrease is min(brake_kph_s * dt, current_speed -
\* apex speed).
C30_CriticalCornerBraking ==
    \A n \in 1..Len(last_call) :
        LET before == last_call[n].strategy
            after == targeting_strategy
            dt == last_call[n].duration_seconds
            speed == before.current_speed_kph
            corners == PathAnalysis([after EXCEPT !.current_speed_kph = speed])
            critical ==
                {k \in 1..Len(corners) :
                    IF corners[k].apex_speed_kph >= speed
                    THEN corners[k].distance_to_corner <= 0
                    ELSE 10 * (speed * speed
                               - corners[k].apex_speed_kph * corners[k].apex_speed_kph)
                         >= 72 * before.braking_kph_s * corners[k].distance_to_corner}
            first == CHOOSE k \in critical : \A j \in critical : k <= j
            target == IF critical = {} THEN before.top_speed_kph
                      ELSE corners[first].apex_speed_kph
        IN  (/\ last_call[n].op = "get_next_position"
             /\ before.type = "waypoint"
             /\ before.mode = "dynamic"
             /\ before.is_active
             /\ ~before.completed
             /\ ~after.completed)
            => /\ target > speed =>
                    after.current_speed_kph =
                        Max(before.min_corner_speed_kph,
                            speed + Min(before.acceleration_kph_s * dt, target - speed))
               /\ target = speed => after.current_speed_kph = speed
               /\ target < speed =>
                    after.current_speed_kph =
                        speed - Min(before.braking_kph_s * dt, speed - target)
               /\ after.current_speed_kph < speed =>
                    /\ critical # {}
                    /\ speed - after.current_speed_kph
                          = Min(before.braking_kph_s * dt, speed - target)
\* on a loop, a vehicle has braked for the corner ahead: its braking distance
\* had become longer than the leg to the corner
C30_Witness ==
    /\ last_call # << >>
    /\ last_call[1].op = "get_next_position"
    /\ targeting_strategy.mode = "dynamic"
    /\ targeting_strategy.loop
    /\ targeting_strategy.current_speed_kph < last_call[1].strategy.current_speed_kph
    /\ targeting_strategy.current_speed_kph >= targeting_strategy.min_corner_speed_kph

TripleAhead(s, i) == s.current_waypoint_index + i + 2 < Len(s.waypoints)
\* C32 (as claimed): in a tick of Dynamic mode on a route with loop = false,
\* every corner of the path analysis is a triple entirely ahead on the open
\* route: the look-ahead stops at the first triple that would wrap past the
\* last waypoint to the start of the list.
C32_OpenLookAheadStops ==
    \A n \in 1..Len(last_call) :
        LET before == last_call[n].strategy
            after == targeting_strategy
            analysed == [after EXCEPT !.current_speed_kph = before.current_speed_kph]
        IN  (/\ last_call[n].op = "get_next_position"
             /\ before.type = "waypoint"
             /\ before.mode = "dynamic"
             /\ ~before.loop
             /\ before.is_active
             /\ ~before.completed
             /\ ~after.completed)
            => \A k \in 1..Len(PathAnalysis(analysed)) : TripleAhead(analysed, k - 1)

(* -------------------------------- C33 ---------------------------------- *)
\* the step is a tick: a call of get_next_position
IsTick == last_call' # << >> /\ last_call'[1].op = "get_next_position"
\* a LinearTargeting with stop_at_target is installed
LinearStops ==
    targeting_strategy.type = "linear" /\ targeting_strategy.stop_at_target
\* C33: LinearTargeting with stop_at_target and a speed above 0: no tick moves
\* the receiver further than the distance to the target; ticking on,
\* is_complete() becomes true; and once it is true, ticks leave it true and
\* leave the position alone (until reset()).
C33_LinearArrivesAndStays ==
    /\ [][(LinearStops /\ IsTick)
            => calculate_distance_km(latlon, latlon')
                 <= calculate_distance_km(latlon, targeting_strategy.target)]_vars
    /\ (LinearStops ~> (LinearStops /\ IsComplete(targeting_strategy)))
    /\ [][(LinearStops /\ IsComplete(targeting_strategy) /\ IsTick)
            => /\ IsComplete(targeting_strategy')
               /\ latlon' = latlon
               /\ kph' = 0]_vars
\* a receiver that was less than a full step from the target was moved onto the
\* target, the strategy then was completed, and a further tick left it there
C33_Witness ==
    /\ LinearStops
    /\ IsComplete(targeting_strategy)
    /\ latlon = targeting_strategy.target
    /\ targeting_strategy.total_distance_traveled = 30
    /\ last_call # << >>
    /\ last_call[1].op = "get_next_position"
    /\ last_call[1].strategy.arrived
    /\ last_call[1].latlon = latlon

(* -------------------------------- C34 ---------------------------------- *)
\* a looping WaypointTargeting in Manual mode is installed
LoopManual ==
    /\ targeting_strategy.type = "waypoint"
    /\ targeting_strategy.loop
    /\ targeting_strategy.mode = "manual"
\* the strategy is in lap k (counted from 0) with the waypoint of index i as
\* its target
Targets(k, i) ==
    /\ LoopManual
    /\ targeting_strategy.laps_completed = k
    /\ targeting_strategy.current_waypoint_index = i
\* the indices of the longest route of JourneyStrategies
RouteIndices == 0..2
\* C34: WaypointTargeting with loop=True in Manual mode, speed and dt above 0:
\* a tick keeps the target or takes the next waypoint in cyclic order, counting
\* a lap exactly when it wraps to the first; it moves the receiver by no more
\* than the distance to the waypoint it targets; and, ticking on, every lap
\* targets every waypoint and is followed by the next lap (laps_completed
\* grows, here up to MaxLaps).
C34_LoopCyclesForever ==
    /\ [][(LoopManual /\ IsTick)
            => LET N == Len(targeting_strategy.waypoints)
                   index == targeting_strategy.current_waypoint_index
                   next == targeting_strategy'.current_waypoint_index
               IN  /\ next \in {index, (index + 1) % N}
                   /\ next < N
                   /\ targeting_strategy'.laps_completed =
                        targeting_strategy.laps_completed
                          + (IF next = 0 /\ index # 0 THEN 1 ELSE 0)
                   /\ calculate_distance_km(latlon, latlon')
                        <= calculate_distance_km(
                              latlon, targeting_strategy.waypoints[next + 1])]_vars
    /\ \A k \in 0..(MaxLaps - 1) :
         /\ (LoopManual /\ targeting_strategy.laps_completed = k)
              ~> (LoopManual /\ targeting_strategy.laps_completed = k + 1)
         /\ \A i \in RouteIndices :
              (Targets(k, 0) /\ i < Len(targeting_strategy.waypoints))
                 ~> Targets(k, i)
\* in its second lap a route of three waypoints targets its second waypoint
C34_Witness ==
    /\ Targets(1, 1)
    /\ Len(targeting_strategy.waypoints) = 3
    /\ targeting_strategy.total_distance_traveled >= 90
    /\ last_call # << >>
    /\ last_call[1].op = "get_next_position"
    /\ last_call[1].strategy.current_waypoint_index = 0

(* -------------------------------- C35 ---------------------------------- *)
\* C35: whatever ticks, add_waypoint and remove_waypoint calls were made, one
\* at a time, current_index is within 0..len(waypoints), and below
\* len(waypoints) while the route is not completed; a remove_waypoint(i) that
\* removes a waypoint takes 1 from a current_index of i or more (but leaves 0
\* at 0) and leaves a smaller current_index as it is.
C35_IndexInRange ==
    targeting_strategy.type = "waypoint" =>
        /\ targeting_strategy.current_waypoint_index
              \in 0..Len(targeting_strategy.waypoints)
        /\ ~targeting_strategy.completed =>
              targeting_strategy.current_waypoint_index
                 < Len(targeting_strategy.waypoints)
        /\ \A n \in 1..Len(last_call) :
             LET before == last_call[n].strategy
                 i == last_call[n].arg
                 index == before.current_waypoint_index
             IN  (/\ last_call[n].op = "remove_waypoint"
                  /\ Len(targeting_strategy.waypoints) < Len(before.waypoints))
                 => targeting_strategy.current_waypoint_index =
                       IF index >= i /\ index > 0 THEN index - 1 ELSE index
\* the second of three waypoints was removed while the third was the target:
\* the target is now the second of two
C35_Witness ==
    /\ last_call # << >>
    /\ last_call[1].op = "remove_waypoint"
    /\ last_call[1].arg = 1
    /\ last_call[1].strategy.current_waypoint_index = 2
    /\ Len(last_call[1].strategy.waypoints) = 3
    /\ targeting_strategy.current_waypoint_index = 1
    /\ Len(targeting_strategy.waypoints) = 2

(* -------------------------------- C36 ---------------------------------- *)
\* no strategy is active: none is installed, or the one installed is inactive
NoActiveStrategy ==
    targeting_strategy = NoStrategy \/ ~targeting_strategy.is_active
\* the receiver is given a random heading jitter and the default move: straight
\* on at its speed and (new) heading for the duration of the tick
JitterAndMove ==
    /\ \E rand_heading \in RandomHeadings :
         heading' = (heading + rand_heading) % 360
    /\ heading' \in 0..359
    /\ latlon' = move_position(latlon, heading', DistanceThisStep(kph, StepDuration))
    /\ kph' = kph
\* C36 (as claimed): in a tick of the driver in which the receiver has a fix,
\* heading_variation > 0 and no strategy is active (none installed, or the
\* installed one inactive), the receiver gets the random heading jitter, its
\* heading staying in [0, 360), and moves straight on at its speed and heading.
C36_DefaultMoveWithoutStrategy ==
    [][(/\ \E w \in Workers : StepsNow(w)
        /\ has_fix
        /\ heading_variation > 0
        /\ NoActiveStrategy)
       => JitterAndMove]_vars

(* -------------------------------- C37 ---------------------------------- *)
\* the client is inside set_targeting() or clear_targeting(), about to assign
Installing(c) == kpc[c] \in {"st_hold", "ct_hold"}
\* the thread is inside a tick: a worker about to call __step (lines 198-202),
\* a client inside the with block of get_output that ends with __step (lines
\* 248-255)
InTick(t) ==
    IF t \in Workers THEN wpc[t] = "w_step" ELSE kpc[t] = "g_yield"
\* C37: set_targeting() and clear_targeting() take effect only between ticks:
\* a tick runs with the state lock held from before its first look at the
\* strategy until after __step, the two operations assign with the lock held,
\* so no thread is inside a tick while another assigns, and while a thread is
\* inside a tick only its own __step changes the strategy.
C37_TargetingBetweenTicks ==
    /\ [](\A t \in Threads : InTick(t) => lock = t)
    /\ [](\A c \in Clients : Installing(c) => lock = c)
    /\ [](\A c \in Clients : Installing(c) => \A t \in Threads : ~InTick(t))
    /\ [][\A t \in Threads :
            (InTick(t) /\ targeting_strategy' # targeting_strategy)
               => /\ ~InTick(t)'
                  /\ \A c \in Clients : ~Installing(c)]_vars
\* after a tick that advanced the strategy, a worker waits at the lock for its
\* next tick while set_targeting() holds the lock
C37_Witness ==
    /\ \E c \in Clients : kpc[c] = "st_hold" /\ lock = c
    /\ \E w \in Workers : wpc[w] = "w_step_lock"
    /\ sim_time > 0
    /\ targeting_strategy.type = "linear"
    /\ targeting_strategy.total_distance_traveled > 0

(* -------------------------------- C38 ---------------------------------- *)
\* C38 (as claimed): when kill() has returned, is_running() is falsy, whatever
\* happened before (a worker that ended by itself on an error included); and
\* is_running() is truthy whenever a worker thread is alive.
C38_NotRunningAfterKill ==
    /\ KillReturned => ~is_running
    /\ (\E w \in Workers : IsAlive(w)) => is_running

(* -------------------------------- C39 ---------------------------------- *)
\* C39 (as claimed): after any start_auto_logging() and stop_auto_logging()
\* calls, those whose open fails included, get_log_filename() is not None
\* exactly when a log file handle is open.
C39_LogNameIffOpen == get_log_filename <=> log_file_handle

(* -------------------------------- C40 ---------------------------------- *)
\* C40 (as claimed): a remove_waypoint() call that races with a worker tick
\* never makes the tick index the waypoint list with current_index >=
\* len(waypoints): no read of a target waypoint by get_next_position raises
\* IndexError, in any interleaving.
C40_TickReadsValidWaypoint == last_call # << >> => last_call[1].result # "IndexError"

====
